---- MODULE Spec2Model ----
(***************************************************************************)
(* Energy Export Monitor: the control loop of the coordinator              *)
(* (coordinator.py), the discharge/charge service handlers (__init__.py)   *)
(* and the safety layer (error_handler.py).                                *)
(*                                                                         *)
(* Time is the wall clock in seconds.  Energy is counted in whole kWh,     *)
(* state of charge in percent.  A missing value (Python None, an           *)
(* unavailable sensor) is the empty sequence None; a present value x is    *)
(* the one-element sequence Some(x).                                       *)
(***************************************************************************)
EXTENDS Integers, Sequences, FiniteSets, TLC

None == << >>
Some(x) == << x >>
Val(o) == o[1]

Max2(a, b) == IF a >= b THEN a ELSE b

(***************************************************************************)
(* Bounds of the model.                                                    *)
(***************************************************************************)
MaxNow == 40          \* the 10 s clock of Spec stops here
MaxEnergy == 1        \* energy readings range over 0 .. MaxEnergy
MaxPolls == 2         \* verification polls observed before the deadline
MaxPending == 1       \* service calls scheduled and not yet started, per service
MaxFailures == 1      \* actuation failures recorded in a row in Spec
MaxNowCB == 80        \* the clock of SpecCB stops here
MaxFailuresCB == 6    \* failures recorded in a row in SpecCB and SpecGuard
MaxNowTrigger == 180  \* the clock of SpecMethods stops here
MaxFired == 3         \* sessions the auto-trigger starts in SpecMethods
MaxNowRollover == 172800  \* the clock of SpecRollover stops here: two days
MaxOverrun == 1       \* tenths of a second by which asyncio.sleep may wake late

(***************************************************************************)
(* Program constants.                                                      *)
(***************************************************************************)
DEFAULT_SCAN_INTERVAL == 10     \* seconds between two ticks
failure_threshold == 5          \* CircuitBreaker.__init__ default
timeout_duration == 60          \* CircuitBreaker.__init__ default, seconds
max_age_seconds == 30           \* StaleDataDetector.__init__ default
TRIGGER_LEAD_SECONDS == 300     \* "-5 <= time_until_start", minutes, in seconds
SECONDS_PER_DAY == 86400
SECONDS_PER_MINUTE == 60
MINUTES_PER_DAY == 1440
STATE_VERIFICATION_POLL_INTERVAL == 2   \* 0.2 s, in tenths of a second
STATE_VERIFICATION_MAX_WAIT == 30       \* 3.0 s, in tenths of a second

(***************************************************************************)
(* Configuration (entry.data merged with entry.options).                   *)
(***************************************************************************)
min_soc == 20                   \* CONF_MIN_SOC, DEFAULT_MIN_SOC
safety_margin == 0              \* CONF_SAFETY_MARGIN, kWh
TargetExports == {0, 1000}      \* CONF_TARGET_EXPORT, W (the default is 0)

VARIABLES
    now,                        \* datetime.now()
    discharge_active,           \* coordinator._discharge_active
    discharge_start_export,     \* coordinator._discharge_start_export
    discharge_target_energy,    \* coordinator._discharge_target_energy
    discharge_start_time,       \* coordinator._discharge_start_time
    calculated_duration,        \* coordinator._calculated_duration (tenths of a minute)
    last_auto_discharge_window, \* coordinator._last_auto_discharge_window
    charge_active,              \* coordinator._charge_active
    charge_start_time,          \* coordinator._charge_start_time
    last_auto_charge_window,    \* coordinator._last_auto_charge_window
    data,                       \* coordinator.data, the published snapshot
    last_update,                \* StaleDataDetector.last_update
    circuit_breaker,            \* CircuitBreaker: failure_count, last_failure_time, is_open
    pending,                    \* service calls scheduled on the bus, not yet started
    sd_pc,                      \* handle_start_discharge: the call it is awaiting
    sd_origin,                  \* who called the running handle_start_discharge
    sc_pc,                      \* handle_start_charge: the call it is awaiting
    ssc,                        \* the frame of a running safe_service_call
    planned,                    \* the latest planner call: its arguments and its result
    upd,                        \* the frame of a running _async_update_data
    pure,                       \* the latest call of a method without effect: arguments, result
    event                       \* what the latest step did and observed

control == << discharge_active, discharge_start_export, discharge_target_energy,
              discharge_start_time >>
chargeControl == << charge_active, charge_start_time >>
dedup == << last_auto_discharge_window, last_auto_charge_window >>
handlers == << sd_pc, sd_origin, sc_pc >>
calls == << ssc, planned, upd, pure >>
vars == << now, control, calculated_duration, dedup, chargeControl, data, last_update,
           circuit_breaker, pending, handlers, calls, event >>

(***************************************************************************)
(* error_handler.py: CircuitBreaker                                        *)
(***************************************************************************)
NewCircuitBreaker ==
    [failure_count |-> 0, last_failure_time |-> None, is_open |-> FALSE]

\* A breaker whose record_success closes it and keeps the count.
record_success_keeps_count(cb) == [cb EXCEPT !.is_open = FALSE]

record_success(cb) ==
    [cb EXCEPT !.failure_count = 0, !.is_open = FALSE]

\* A breaker that opens one failure early.
record_failure_early(cb, t) ==
    LET count == cb.failure_count + 1
    IN  [failure_count |-> count,
         last_failure_time |-> Some(t),
         is_open |-> IF count >= failure_threshold - 1 THEN TRUE ELSE cb.is_open]

record_failure(cb, t) ==
    LET count == cb.failure_count + 1
    IN  [failure_count |-> count,
         last_failure_time |-> Some(t),
         is_open |-> IF count >= failure_threshold THEN TRUE ELSE cb.is_open]

\* A breaker whose probe after the cooldown leaves it open.
can_attempt_stays_open(cb, t) ==
    IF ~cb.is_open
    THEN [cb |-> cb, result |-> TRUE]
    ELSE [cb |-> cb,
          result |-> cb.last_failure_time # None
                     /\ t - Val(cb.last_failure_time) > timeout_duration]

\* The breaker after the call, and the value the call returns.
can_attempt(cb, t) ==
    IF ~cb.is_open
    THEN [cb |-> cb, result |-> TRUE]
    ELSE IF cb.last_failure_time # None
            /\ t - Val(cb.last_failure_time) > timeout_duration
         THEN [cb |-> [cb EXCEPT !.is_open = FALSE, !.failure_count = 0],
               result |-> TRUE]
         ELSE [cb |-> cb, result |-> FALSE]

(***************************************************************************)
(* error_handler.py: StaleDataDetector                                     *)
(***************************************************************************)
\* A detector that only knows "never updated" and ignores the age.
is_stale_never_updated(lu, t) == lu = None

is_stale(lu, t) ==
    \/ lu = None
    \/ t - Val(lu) > max_age_seconds

(***************************************************************************)
(* error_handler.py: safe_service_call                                     *)
(* req is how the service request ended; verify says whether an entity and *)
(* an expected value were given; reads are the states of the entity seen   *)
(* by the successive polls that run before the verification deadline.      *)
(***************************************************************************)
Requests == {"ok", "timeout", "raise"}
ReadVals == {"match", "other", "unavailable"}

RECURSIVE poll(_, _)
poll(reads, i) ==
    IF i > Len(reads)
    THEN FALSE                                  \* elapsed > STATE_VERIFICATION_MAX_WAIT
    ELSE IF reads[i] \in {"missing", "unknown", "unavailable"}
         THEN poll(reads, i + 1)                \* sleep, poll again
         ELSE IF reads[i] \in {"match", "close"}
              THEN TRUE                         \* string match, or numeric within 0.01
              ELSE poll(reads, i + 1)           \* a valid state, not the expected one

safe_service_call(req, verify, reads) ==
    IF req # "ok"
    THEN FALSE
    ELSE IF verify THEN poll(reads, 1) ELSE TRUE

ReadSeqs == UNION { [1..n -> ReadVals] : n \in 1..MaxPolls }

\* The outcomes of one verified call: a request that failed has no polls.
CallOutcomes ==
    { c \in [req : Requests, reads : ReadSeqs \cup {<< >>}] :
        (c.req = "ok") <=> (c.reads # << >>) }

\* The outcomes the handlers are run against: the request fails, or the
\* first poll sees the expected state, another state, or none before the
\* deadline.
HandlerOutcomes == { c \in CallOutcomes : Len(c.reads) <= 1 }

(***************************************************************************)
(* coordinator.py: the calculators                                         *)
(***************************************************************************)
\* A calculator that never returns a negative headroom.
calculate_export_headroom_clamped(pv_energy_today, solcast_total_today, grid_feed_today, margin) ==
    LET export_cap == Max2(pv_energy_today, solcast_total_today) + margin
    IN  [export_cap |-> export_cap, headroom |-> Max2(0, export_cap - grid_feed_today)]

calculate_export_headroom(pv_energy_today, solcast_total_today, grid_feed_today, margin) ==
    LET export_cap == Max2(pv_energy_today, solcast_total_today) + margin
    IN  [export_cap |-> export_cap, headroom |-> export_cap - grid_feed_today]

\* A calculator that leaves the buffer out.
calculate_discharge_duration_unbuffered(headroom_kwh, target_export_w, buffer_pct) ==
    IF target_export_w <= 0 \/ headroom_kwh <= 0
    THEN 0
    ELSE LET num == headroom_kwh * 1000 * 60 * 10 * 100
             den == target_export_w * 100
         IN  (2 * num + den) \div (2 * den)

\* A calculator that takes the buffer off the duration.
calculate_discharge_duration_reduced(headroom_kwh, target_export_w, buffer_pct) ==
    IF target_export_w <= 0 \/ headroom_kwh <= 0
    THEN 0
    ELSE LET num == headroom_kwh * 1000 * 60 * 10 * (100 - buffer_pct)
             den == target_export_w * 100
         IN  (2 * num + den) \div (2 * den)

\* Minutes, in tenths; the buffer in percent.
calculate_discharge_duration(headroom_kwh, target_export_w, buffer_pct) ==
    IF target_export_w <= 0 \/ headroom_kwh <= 0
    THEN 0
    ELSE LET num == headroom_kwh * 1000 * 60 * 10 * (100 + buffer_pct)
             den == target_export_w * 100
         IN  (2 * num + den) \div (2 * den)

(***************************************************************************)
(* What a step did: the operation, the branch it took, the point command   *)
(* it issued, the value it returned (or whether its awaited call           *)
(* succeeded), and what a tick computed.                                   *)
(***************************************************************************)
NoObs == [active |-> FALSE, limit |-> FALSE, reached |-> FALSE, stop |-> FALSE]

\* fired: the windows the discharge auto-trigger has started a session for.
\* prior: "reached" once a tick has seen the export target reached, "stopped"
\* once a turn-off has been verified after that, until the next tick has run.
Ev(op, outcome, cmd, result) ==
    [op |-> op, outcome |-> outcome, cmd |-> cmd, result |-> result, origin |-> "none",
     obs |-> NoObs, fired |-> event.fired,
     prior |-> IF event.op = "tick"
               THEN IF event.obs.reached THEN "reached" ELSE "none"
               ELSE event.prior]

NoPending == [stop_discharge |-> 0, start_discharge |-> 0, start_charge |-> 0]

\* No safe_service_call is running; no planner has been called.
NoCall == [pc |-> "idle", verify |-> FALSE, req |-> "none", requests |-> 0,
           elapsed |-> 0, last_state |-> "none", result |-> "none"]
NoPlanned == [planner |-> "none"]
NotCalled == [method |-> "none"]

\* No tick is running: the locals of _async_update_data are not bound.
NoUpdate ==
    [pc |-> "idle", in |-> None, export_cap_kwh |-> None, headroom_kwh |-> None,
     duration |-> None,
     stop |-> None, plan_today |-> None, plan_tomorrow |-> None, session |-> None,
     fired |-> None, stages |-> << >>, outcome |-> "none"]

Init ==
    /\ now = 0
    /\ discharge_active = FALSE
    /\ discharge_start_export = None
    /\ discharge_target_energy = None
    /\ discharge_start_time = None
    /\ calculated_duration = 0
    /\ last_auto_discharge_window = None
    /\ charge_active = FALSE
    /\ charge_start_time = None
    /\ last_auto_charge_window = None
    /\ data = None
    /\ last_update = None
    /\ circuit_breaker = NewCircuitBreaker
    /\ pending = NoPending
    /\ sd_pc = "idle"
    /\ sd_origin = "none"
    /\ sc_pc = "idle"
    /\ ssc = NoCall
    /\ planned = NoPlanned
    /\ upd = NoUpdate
    /\ pure = NotCalled
    /\ event = [op |-> "init", outcome |-> "none", cmd |-> "none", result |-> FALSE,
                origin |-> "none", obs |-> NoObs, fired |-> << >>, prior |-> "none"]

\* The wall clock advances.
Tock(step, limit) ==
    /\ now + step <= limit
    /\ now' = now + step
    /\ event' = Ev("tock", "none", "none", FALSE)
    /\ UNCHANGED << calls, control, calculated_duration, dedup, chargeControl, data,
                    last_update, circuit_breaker, pending, handlers >>

(***************************************************************************)
(* The circuit breaker on its own: its three methods called in any order.  *)
(***************************************************************************)
coordinatorState == << control, calculated_duration, dedup, chargeControl, data,
                       last_update, pending, handlers >>

CBRecordSuccess ==
    /\ circuit_breaker' = record_success(circuit_breaker)
    /\ event' = Ev("record_success", "none", "none", TRUE)
    /\ UNCHANGED << calls, now, coordinatorState >>

CBRecordFailure(cap) ==
    /\ circuit_breaker.failure_count < cap
    /\ circuit_breaker' = record_failure(circuit_breaker, now)
    /\ event' = Ev("record_failure", "none", "none", FALSE)
    /\ UNCHANGED << calls, now, coordinatorState >>

CBCanAttempt ==
    LET r == can_attempt(circuit_breaker, now)
    IN  /\ circuit_breaker' = r.cb
        /\ event' = Ev("can_attempt",
                       IF ~r.result THEN "refused"
                       ELSE IF circuit_breaker.is_open THEN "probe" ELSE "closed",
                       "none", r.result)
        /\ UNCHANGED << calls, now, coordinatorState >>

NextCB ==
    \/ CBRecordSuccess
    \/ CBRecordFailure(MaxFailuresCB)
    \/ CBCanAttempt
    \/ Tock(DEFAULT_SCAN_INTERVAL, MaxNowCB)

SpecCB == Init /\ [][NextCB]_vars

(***************************************************************************)
(* coordinator.py: the auto-trigger scan shared by                         *)
(* _check_and_trigger_auto_discharge and _check_and_trigger_auto_charge.   *)
(* A window is [start, energy, fmt]: start in seconds, fmt the form of its *)
(* "period_start" string: "aware" (ISO with a UTC offset, what the         *)
(* planners emit), "naive" (ISO without offset) or "missing" (no such      *)
(* key: the windows of the today plan carry "from" and "to").              *)
(***************************************************************************)
date_of(t) == t \div SECONDS_PER_DAY

\* f"{today_str}_{window_start_str}"
window_id(t, w) == [date |-> date_of(t), start |-> w.start, fmt |-> w.fmt]

\* today_str in last: the id holds the trigger date and the window's own date
today_in(id, t) == date_of(t) = id.date \/ date_of(t) = date_of(id.start)

\* A scan that does not look at the dedup key.
scan_windows_forgetting(plan, i, last, active, t) ==
    LET matching == { k \in i..Len(plan) :
                        /\ plan[k].fmt = "naive"
                        /\ 0 - TRIGGER_LEAD_SECONDS <= plan[k].start - t
                        /\ plan[k].start - t <= 0
                        /\ ~active }
    IN  IF matching = {}
        THEN 0
        ELSE CHOOSE k \in matching : \A m \in matching : k <= m

\* A scan that fires for the window that starts first.
scan_windows_earliest(plan, i, last, active, t) ==
    LET matching == { k \in i..Len(plan) :
                        /\ plan[k].fmt = "naive"
                        /\ last # Some(window_id(t, plan[k]))
                        /\ 0 - TRIGGER_LEAD_SECONDS <= plan[k].start - t
                        /\ plan[k].start - t <= 0
                        /\ ~active }
    IN  IF matching = {}
        THEN 0
        ELSE CHOOSE k \in matching :
                 \A m \in matching :
                     \/ plan[k].start < plan[m].start
                     \/ plan[k].start = plan[m].start /\ k <= m

\* The index of the window the scan fires for, 0 when it fires for none.
RECURSIVE scan_windows(_, _, _, _, _)
scan_windows(plan, i, last, active, t) ==
    IF i > Len(plan)
    THEN 0
    ELSE LET w == plan[i]
         IN  IF w.fmt = "missing"
             THEN scan_windows(plan, i + 1, last, active, t)
             ELSE IF last = Some(window_id(t, w))
             THEN scan_windows(plan, i + 1, last, active, t)
             ELSE IF w.fmt = "aware"        \* aware - naive: TypeError, continue
             THEN scan_windows(plan, i + 1, last, active, t)
             ELSE IF /\ 0 - TRIGGER_LEAD_SECONDS <= w.start - t
                     /\ w.start - t <= 0
                     /\ ~active
             THEN i
             ELSE scan_windows(plan, i + 1, last, active, t)

\* A scan that keeps the key of an earlier date.
auto_trigger_keeping(plan, last, active, t) ==
    IF plan = << >>
    THEN [last |-> last, fired |-> 0]
    ELSE LET i == scan_windows(plan, 1, last, active, t)
         IN  [last |-> IF i > 0 THEN Some(window_id(t, plan[i])) ELSE last,
              fired |-> i]

\* The dedup key after the scan and the window fired for.
auto_trigger(plan, last, active, t) ==
    IF plan = << >>
    THEN [last |-> last, fired |-> 0]
    ELSE LET kept == IF last # None /\ ~today_in(Val(last), t) THEN None ELSE last
             i == scan_windows(plan, 1, kept, active, t)
         IN  [last |-> IF i > 0 THEN Some(window_id(t, plan[i])) ELSE kept,
              fired |-> i]

(***************************************************************************)
(* Coordinator methods used by the handlers whose bodies are not in        *)
(* coordinator.py: they are what the handlers' use of them and             *)
(* error_handler.py say they are.                                          *)
(***************************************************************************)
ActuationFailures ==
    {"discharge_power_set_failed", "discharge_start_failed", "discharge_stop_failed"}

is_data_stale == is_stale(last_update, now)

set_error_state(cb, key, t) ==
    IF key \in ActuationFailures THEN record_failure(cb, t) ELSE cb

clear_error_state(cb) == record_success(cb)

can_attempt_operation(cb, t) == can_attempt(cb, t)

(***************************************************************************)
(* coordinator.py: set_discharge_active, set_charge_active                 *)
(***************************************************************************)
set_discharge_active(active, grid_export, target_energy) ==
    /\ discharge_active' = active
    /\ IF active
       THEN /\ discharge_start_export' = grid_export
            /\ discharge_target_energy' = target_energy
            /\ discharge_start_time' = Some(now)
       ELSE /\ discharge_start_export' = None
            /\ discharge_target_energy' = None
            /\ discharge_start_time' = None

\* A setter that keeps the start time of the session it ends.
set_charge_active_keeping(active) ==
    /\ charge_active' = active
    /\ charge_start_time' = IF active THEN Some(now) ELSE charge_start_time

set_charge_active(active) ==
    /\ charge_active' = active
    /\ charge_start_time' = IF active THEN Some(now) ELSE None

\* Python truthiness of an optional number: None and 0.0 are false.
truthy(o) == o # None /\ Val(o) # 0

(***************************************************************************)
(* coordinator.py: _async_update_data, one tick.                           *)
(* in: the sensor readings (None when a sensor is missing, unavailable or  *)
(* not numeric), the configuration in force, the plans the planners        *)
(* return, and whether the bus refuses a start_charge call.                *)
(***************************************************************************)
Tick(in) ==
    IF in.soc = None \/ in.pv = None \/ in.grid = None \/ in.sol = None
    THEN \* raise UpdateFailed: nothing is stored, the old snapshot stays
         /\ event' = [Ev("tick", "update_failed", "none", FALSE)
                         EXCEPT !.obs.active = discharge_active]
         /\ UNCHANGED << calls, now, control, calculated_duration, dedup, chargeControl, data,
                         last_update, circuit_breaker, pending, handlers >>
    ELSE
    LET current_soc == Val(in.soc)
        grid_feed_today == Val(in.grid)
        reserve_soc_target == IF in.observe THEN in.reserve ELSE None
        reserve_limit_reached ==
            reserve_soc_target # None /\ current_soc < Val(reserve_soc_target)
        hr == calculate_export_headroom(Val(in.pv), Val(in.sol), grid_feed_today,
                                        safety_margin)
        headroom_kwh == hr.headroom
        calculated_duration_minutes ==
            IF current_soc > min_soc /\ headroom_kwh > 0
            THEN IF in.target_export > 0
                 THEN calculate_discharge_duration(headroom_kwh, in.target_export, 10)
                 ELSE calculate_discharge_duration(headroom_kwh, headroom_kwh * 1000, 10)
            ELSE 0
        tracking == discharge_active /\ discharge_start_export # None
        discharge_complete ==
            /\ tracking
            /\ truthy(discharge_target_energy)
            /\ grid_feed_today - Val(discharge_start_export) >= Val(discharge_target_energy)
        should_stop_discharge ==
            discharge_active
            /\ (headroom_kwh <= 0 \/ discharge_complete \/ reserve_limit_reached)
        \* target_export_kwh is not defined in _async_update_data
        name_error == in.auto_discharge /\ in.plan # << >>
        ct == IF ~name_error /\ in.auto_charge /\ in.session # << >>
              THEN auto_trigger(in.session, last_auto_charge_window, charge_active, now)
              ELSE [last |-> last_auto_charge_window, fired |-> 0]
        requested == IF ct.fired > 0 /\ ~in.call_raises THEN 1 ELSE 0
        \* what the tick saw: the export since the start has reached the target;
        \* a limit is hit (no headroom, target reached, below the reserve)
        reached == /\ tracking
                   /\ discharge_target_energy # None
                   /\ grid_feed_today - Val(discharge_start_export)
                          >= Val(discharge_target_energy)
        obs == [active |-> discharge_active,
                limit |-> discharge_active
                          /\ (headroom_kwh <= 0 \/ reached \/ reserve_limit_reached),
                reached |-> reached,
                stop |-> should_stop_discharge]
    IN  \* the today plan exists only when CI planning ran with headroom
        /\ in.plan # << >> => headroom_kwh > 0 /\ in.target_export > 0
        /\ should_stop_discharge => pending.stop_discharge < MaxPending
        /\ requested > 0 => pending.start_charge < MaxPending
        /\ calculated_duration' = calculated_duration_minutes
        /\ pending' = [pending EXCEPT
                          !.stop_discharge = @ + (IF should_stop_discharge THEN 1 ELSE 0),
                          !.start_charge = @ + requested]
        /\ last_auto_charge_window' = ct.last
        /\ IF ct.fired > 0
           THEN set_charge_active(~in.call_raises)
           ELSE UNCHANGED chargeControl
        /\ IF name_error
           THEN UNCHANGED << data, last_update >>
           ELSE /\ data' = Some([headroom |-> headroom_kwh,
                                  export_allowed |-> hr.export_cap,
                                  next_charge_session |-> in.session])
                /\ last_update' = Some(now)     \* StaleDataDetector.record_update
        /\ event' = [Ev("tick", IF name_error THEN "name_error" ELSE "ok",
                        IF should_stop_discharge THEN "stop_discharge" ELSE "none",
                        ~name_error)
                        EXCEPT !.obs = obs]
        /\ UNCHANGED << calls, now, control, last_auto_discharge_window, circuit_breaker,
                        handlers >>

(***************************************************************************)
(* error_handler.py: get_safe_sensor_value.  The reading is None when the  *)
(* sensor is missing, unavailable, not numeric or out of range.            *)
(***************************************************************************)
get_safe_sensor_value(reading, default) ==
    IF reading = None THEN default ELSE reading

(***************************************************************************)
(* __init__.py: handle_start_discharge.  The handler runs up to its first  *)
(* awaited call, then one step per awaited call: the step takes the        *)
(* outcome of the call awaited and issues the next one.  sd_pc names the   *)
(* call awaited.                                                           *)
(***************************************************************************)
\* The calls that can follow: the cutoff, duration and timer entities are
\* used only if they exist.
NextCalls(pc) ==
    CASE pc = "power"    -> {"cutoff", "duration", "timer", "enable"}
      [] pc = "cutoff"   -> {"duration", "timer", "enable"}
      [] pc = "duration" -> {"timer", "enable"}
      [] OTHER           -> {"enable"}

CommandOf(call) == IF call = "enable" THEN "turn_on" ELSE call

\* A handler that goes on after a failed power set-point.
next_after_power_continue(success, next) == next

\* Where the handler stands after each awaited call.
next_after_power(success, next) == IF ~success THEN "idle" ELSE next
next_after_cutoff(success, next) == next        \* "continuing anyway"
next_after_duration(success, next) == next      \* "continuing anyway"
next_after_timer(req) == IF req = "ok" THEN "enable" ELSE "idle"
enable_outcome(success) == IF ~success THEN "discharge_start_failed" ELSE "started"

\* origin: "user" (a service call from outside) or "auto" (a call the
\* auto-trigger put on the bus).
StartDischargeBegin(origin, soc_reading, target_export_w) ==
    LET current_soc == get_safe_sensor_value(soc_reading, None)
        outcome ==
            IF current_soc = None THEN "soc_read_failed"
            ELSE IF Val(current_soc) <= min_soc THEN "soc_low"
            ELSE IF is_data_stale THEN "stale_data"
            ELSE IF data = None THEN "no_data"
            ELSE IF Val(data).headroom <= 0 THEN "no_headroom"
            ELSE IF target_export_w <= 0 THEN "no_target"
            ELSE "power"
    IN  /\ sd_pc = "idle"
        /\ origin = "auto" => pending.start_discharge > 0
        /\ pending' = IF origin = "auto"
                      THEN [pending EXCEPT !.start_discharge = @ - 1]
                      ELSE pending
        /\ sd_pc' = IF outcome = "power" THEN "power" ELSE "idle"
        /\ sd_origin' = IF outcome = "power" THEN origin ELSE "none"
        /\ circuit_breaker' = IF outcome \in {"soc_read_failed", "stale_data", "no_data"}
                              THEN set_error_state(circuit_breaker, outcome, now)
                              ELSE circuit_breaker
        /\ event' = [Ev("start_discharge", outcome,
                        IF outcome = "power" THEN "power" ELSE "none", FALSE)
                        EXCEPT !.origin = origin]
        /\ UNCHANGED << calls, now, control, calculated_duration, dedup, chargeControl, data,
                        last_update, sc_pc >>

\* The power set-point call returned.
StartDischargePower(cap, c, next) ==
    LET success == safe_service_call(c.req, TRUE, c.reads)
    IN  /\ sd_pc = "power"
        /\ next \in NextCalls("power")
        /\ sd_pc' = next_after_power(success, next)
        /\ IF sd_pc' # "idle"
           THEN /\ UNCHANGED << sd_origin, circuit_breaker >>
                /\ event' = [Ev("start_discharge", "power_set", CommandOf(next), success)
                                EXCEPT !.origin = sd_origin]
           ELSE /\ circuit_breaker.failure_count < cap
                /\ circuit_breaker' =
                       set_error_state(circuit_breaker, "discharge_power_set_failed", now)
                /\ sd_origin' = "none"
                /\ event' = [Ev("start_discharge", "discharge_power_set_failed", "none",
                                success) EXCEPT !.origin = sd_origin]
        /\ UNCHANGED << calls, now, control, calculated_duration, dedup, chargeControl, data,
                        last_update, pending, sc_pc >>

\* The cutoff SOC call returned: a failure is logged, "continuing anyway".
StartDischargeCutoff(c, next) ==
    LET success == safe_service_call(c.req, TRUE, c.reads)
    IN  /\ sd_pc = "cutoff"
        /\ next \in NextCalls("cutoff")
        /\ sd_pc' = next_after_cutoff(success, next)
        /\ event' = [Ev("start_discharge",
                        IF success THEN "cutoff_set" ELSE "cutoff_failed",
                        CommandOf(sd_pc'), success) EXCEPT !.origin = sd_origin]
        /\ UNCHANGED << calls, now, control, calculated_duration, dedup, chargeControl, data,
                        last_update, circuit_breaker, pending, sd_origin, sc_pc >>

\* The duration call returned: a failure is logged, "continuing anyway".
StartDischargeDuration(c, next) ==
    LET success == safe_service_call(c.req, TRUE, c.reads)
    IN  /\ sd_pc = "duration"
        /\ next \in NextCalls("duration")
        /\ sd_pc' = next_after_duration(success, next)
        /\ event' = [Ev("start_discharge",
                        IF success THEN "duration_set" ELSE "duration_failed",
                        CommandOf(sd_pc'), success) EXCEPT !.origin = sd_origin]
        /\ UNCHANGED << calls, now, control, calculated_duration, dedup, chargeControl, data,
                        last_update, circuit_breaker, pending, sd_origin, sc_pc >>

\* timer.start returned or raised: the call is not wrapped, a raise ends
\* the handler.
StartDischargeTimer(req) ==
    /\ sd_pc = "timer"
    /\ sd_pc' = next_after_timer(req)
    /\ IF sd_pc' # "idle"
       THEN /\ UNCHANGED sd_origin
            /\ event' = [Ev("start_discharge", "timer_started", "turn_on", req = "ok")
                            EXCEPT !.origin = sd_origin]
       ELSE /\ sd_origin' = "none"
            /\ event' = [Ev("start_discharge", "timer_raised", "none", req = "ok")
                            EXCEPT !.origin = sd_origin]
    /\ UNCHANGED << calls, now, control, calculated_duration, dedup, chargeControl, data,
                    last_update, circuit_breaker, pending, sc_pc >>

\* The turn_on call returned.
StartDischargeEnable(cap, c, grid_reading) ==
    LET success == safe_service_call(c.req, TRUE, c.reads)
        current_grid_export == get_safe_sensor_value(grid_reading, Some(0))
        target_energy == IF data # None THEN Val(data).headroom ELSE 0
    IN  /\ sd_pc = "enable"
        /\ sd_pc' = "idle"
        /\ sd_origin' = "none"
        /\ event' = [Ev("start_discharge", enable_outcome(success), "none", success)
                        EXCEPT !.origin = sd_origin]
        /\ IF event'.outcome = "started"
           THEN /\ set_discharge_active(TRUE, current_grid_export, Some(target_energy))
                /\ circuit_breaker' = clear_error_state(circuit_breaker)
           ELSE /\ circuit_breaker.failure_count < cap
                /\ circuit_breaker' =
                       set_error_state(circuit_breaker, "discharge_start_failed", now)
                /\ UNCHANGED control
        /\ UNCHANGED << calls, now, calculated_duration, dedup, chargeControl, data,
                        last_update, pending, sc_pc >>

(***************************************************************************)
(* __init__.py: handle_stop_discharge.                                     *)
(* origin: "user", or "auto" for a call a tick put on the bus.             *)
(***************************************************************************)
\* Stop handlers that do not wait for the verification, or read it backwards.
stop_outcome_unverified(success) == "stopped"
stop_outcome_inverted(success) == IF success THEN "discharge_stop_failed" ELSE "stopped"

stop_outcome(success) == IF ~success THEN "discharge_stop_failed" ELSE "stopped"

StopDischarge(cap, origin, c) ==
    LET success == safe_service_call(c.req, TRUE, c.reads)
    IN  /\ origin = "auto" => pending.stop_discharge > 0
        /\ pending' = IF origin = "auto"
                      THEN [pending EXCEPT !.stop_discharge = @ - 1]
                      ELSE pending
        /\ event' = [Ev("stop_discharge", stop_outcome(success), "turn_off", success)
                        EXCEPT !.prior = IF success /\ @ = "reached" THEN "stopped" ELSE @]
        /\ IF event'.outcome = "stopped"
           THEN /\ set_discharge_active(FALSE, None, None)
                /\ circuit_breaker' = clear_error_state(circuit_breaker)
           ELSE /\ circuit_breaker.failure_count < cap
                /\ circuit_breaker' =
                       set_error_state(circuit_breaker, "discharge_stop_failed", now)
                /\ UNCHANGED control
        /\ UNCHANGED << calls, now, calculated_duration, dedup, chargeControl, data,
                        last_update, handlers >>

(***************************************************************************)
(* The integration as it runs: ticks, the discharge service handlers       *)
(* called by the user or from the bus, and the clock.                      *)
(***************************************************************************)
SocReadings == {None, Some(10), Some(50)}
TickSocReadings == {None, Some(25), Some(50)}
EnergyReadings == {None} \cup { Some(e) : e \in 0..MaxEnergy }
ReserveReadings == {None, Some(30)}
Origins == {"user", "auto"}

\* A window of the today plan: keys "from" and "to", no "period_start".
TodayWindow == [start |-> 0, energy |-> 1, fmt |-> "missing"]

AllTickInputs ==
    [soc : TickSocReadings, pv : {None, Some(MaxEnergy)}, grid : EnergyReadings,
     sol : {None, Some(0)},
     observe : BOOLEAN, reserve : ReserveReadings, target_export : TargetExports,
     auto_discharge : BOOLEAN, plan : {<< >>, << TodayWindow >>},
     auto_charge : {FALSE}, session : {<< >>}, call_raises : {FALSE}]

Missing(in) == Cardinality({ f \in {"soc", "pv", "grid", "sol"} : in[f] = None })

\* All readings present, or one sensor unavailable under one configuration.
TickInputs ==
    { in \in AllTickInputs :
        /\ in.observe <=> in.reserve # None
        /\ in.plan # << >> => in.auto_discharge
        /\ in.auto_discharge <=> in.target_export > 0
        /\ Missing(in) <= 1
        /\ Missing(in) = 1 =>
              /\ ~in.observe /\ ~in.auto_discharge /\ in.plan = << >>
              /\ in.target_export = 0
              /\ in.grid \in {None, Some(0)}
              /\ in.soc \in {None, Some(50)} }

Next ==
    \/ \E in \in TickInputs : Tick(in)
    \/ \E o \in Origins, soc \in SocReadings, w \in TargetExports :
          StartDischargeBegin(o, soc, w)
    \/ \E c \in HandlerOutcomes, next \in NextCalls("power") :
          StartDischargePower(MaxFailures, c, next)
    \/ \E c \in HandlerOutcomes, next \in NextCalls("cutoff") : StartDischargeCutoff(c, next)
    \/ \E c \in HandlerOutcomes, next \in NextCalls("duration") :
          StartDischargeDuration(c, next)
    \/ \E req \in {"ok", "raise"} : StartDischargeTimer(req)
    \/ \E c \in HandlerOutcomes, g \in EnergyReadings :
          StartDischargeEnable(MaxFailures, c, g)
    \/ \E o \in Origins, c \in HandlerOutcomes : StopDischarge(MaxFailures, o, c)

Spec == Init /\ [][Next]_vars

(***************************************************************************)
(* The same under a clock, for one configuration with healthy sensors:     *)
(* the published snapshot ages between ticks.                              *)
(***************************************************************************)
HealthyTick ==
    [soc |-> Some(50), pv |-> Some(1), grid |-> Some(0), sol |-> Some(0),
     observe |-> FALSE, reserve |-> None, target_export |-> 1000,
     auto_discharge |-> FALSE, plan |-> << >>, auto_charge |-> FALSE,
     session |-> << >>, call_raises |-> FALSE]

NextClock ==
    \/ Tick(HealthyTick)
    \/ \E soc \in SocReadings : StartDischargeBegin("user", soc, 1000)
    \/ \E c \in HandlerOutcomes : StartDischargePower(MaxFailures, c, "enable")
    \/ \E c \in HandlerOutcomes : StartDischargeEnable(MaxFailures, c, Some(0))
    \/ \E c \in HandlerOutcomes : StopDischarge(MaxFailures, "user", c)
    \/ Tock(DEFAULT_SCAN_INTERVAL, MaxNow)

SpecClock == Init /\ [][NextClock]_vars

(***************************************************************************)
(* The handlers next to the breaker they report to: one configuration with *)
(* healthy sensors, user calls only, and the health sensor's               *)
(* can_attempt_operation() read.                                           *)
(***************************************************************************)
NextGuard ==
    \/ Tick(HealthyTick)
    \/ StartDischargeBegin("user", Some(50), 1000)
    \/ \E c \in HandlerOutcomes : StartDischargePower(MaxFailuresCB, c, "enable")
    \/ \E c \in HandlerOutcomes : StartDischargeEnable(MaxFailuresCB, c, Some(0))
    \/ \E c \in HandlerOutcomes : StopDischarge(MaxFailuresCB, "user", c)
    \/ CBCanAttempt
    \/ Tock(max_age_seconds + DEFAULT_SCAN_INTERVAL, MaxNowCB)

SpecGuard == Init /\ [][NextGuard]_vars

(***************************************************************************)
(* coordinator.py: _check_and_trigger_auto_discharge called on its own,    *)
(* with plans whose windows carry "period_start" strings of any form.      *)
(***************************************************************************)
\* A trigger that catches up in one call: it starts a session for every
\* window of the plan that matches.
TriggerDischargeAll(discharge_plan, call_raises) ==
    LET matching == SelectSeq(discharge_plan,
                              LAMBDA w : /\ w.fmt = "naive"
                                         /\ 0 - TRIGGER_LEAD_SECONDS <= w.start - now
                                         /\ w.start - now <= 0
                                         /\ ~discharge_active)
        ids == [k \in 1..Len(matching) |-> window_id(now, matching[k])]
    IN  /\ matching # << >>
        /\ last_auto_discharge_window' = Some(ids[Len(ids)])
        /\ set_discharge_active(TRUE, Some(0), Some(matching[Len(matching)].energy))
        /\ pending' = [pending EXCEPT !.start_discharge = @ + Len(matching)]
        /\ event' = [Ev("trigger_discharge", "fired", "start_discharge", TRUE)
                        EXCEPT !.fired = @ \o ids]
        /\ UNCHANGED << calls, now, calculated_duration, last_auto_charge_window, chargeControl,
                        data, last_update, circuit_breaker, handlers >>

TriggerDischarge(discharge_plan, call_raises) ==
    LET r == auto_trigger(discharge_plan, last_auto_discharge_window, discharge_active,
                          now)
    IN  /\ last_auto_discharge_window' = r.last
        /\ IF r.fired > 0
           THEN /\ Len(event.fired) < MaxFired
                /\ ~call_raises => pending.start_discharge < MaxPending
                /\ IF call_raises
                   THEN set_discharge_active(FALSE, None, None)
                   ELSE set_discharge_active(TRUE, Some(0),
                                             Some(discharge_plan[r.fired].energy))
                /\ pending' = IF call_raises
                              THEN pending
                              ELSE [pending EXCEPT !.start_discharge = @ + 1]
                /\ event' = [Ev("trigger_discharge",
                                IF call_raises THEN "call_failed" ELSE "fired",
                                "start_discharge", ~call_raises)
                                EXCEPT !.fired = IF call_raises THEN @
                                                 ELSE Append(@, Val(r.last))]
           ELSE /\ event' = Ev("trigger_discharge", "none", "none", FALSE)
                /\ UNCHANGED << control, pending >>
        /\ UNCHANGED << calls, now, calculated_duration, last_auto_charge_window, chargeControl,
                        data, last_update, circuit_breaker, handlers >>

WindowA == [start |-> 0, energy |-> 1, fmt |-> "naive"]
WindowB == [start |-> 60, energy |-> 1, fmt |-> "naive"]
WindowAware == [start |-> 0, energy |-> 1, fmt |-> "aware"]

DischargePlans ==
    {<< >>, << WindowA >>, << WindowA, WindowB >>, << TodayWindow, WindowB >>,
     << WindowAware, WindowA >>}

NextMethods ==
    \/ \E plan \in DischargePlans, raises \in BOOLEAN : TriggerDischarge(plan, raises)
    \/ Tick(HealthyTick)
    \/ \E soc \in SocReadings : StartDischargeBegin("auto", soc, 1000)
    \/ \E c \in HandlerOutcomes : StartDischargePower(MaxFailures, c, "enable")
    \/ \E c \in HandlerOutcomes : StartDischargeEnable(MaxFailures, c, Some(0))
    \/ \E c \in HandlerOutcomes : StopDischarge(MaxFailures, "user", c)
    \/ Tock(SECONDS_PER_MINUTE, MaxNowTrigger)

SpecMethods == Init /\ [][NextMethods]_vars

(***************************************************************************)
(* coordinator.py: the planners.  A forecast period is [from, to, ci]:     *)
(* from and to in minutes since 00:00 of the first day (local time is      *)
(* UTC), ci the intensity forecast, NullCI for a JSON null.  A time of day *)
(* is in minutes since midnight.  Energy is in tenths of a Wh, power in W. *)
(* A planner returns its plan, or raises.                                  *)
(***************************************************************************)
NullCI == 0 - 1

day_of(t) == t \div MINUTES_PER_DAY
time_of(t) == t % MINUTES_PER_DAY
at(day, time) == day * MINUTES_PER_DAY + time
Min2(a, b) == IF a <= b THEN a ELSE b

Returns(plan) == [raised |-> FALSE, plan |-> plan]
Raises == [raised |-> TRUE, plan |-> << >>]

\* "Check if period overlaps with export window"
in_export_window(from_time_local, to_time_local, window_start_time, window_end_time) ==
    from_time_local <= window_end_time /\ to_time_local >= window_start_time

\* A sort that leaves the list as it is.
sort_periods_unsorted(periods, reverse) == periods

\* list.sort(key=ci, reverse=reverse): stable; comparing a null raises
\* TypeError, which is the value NullCI standing first in the result.
sort_periods(periods, reverse) ==
    LET RECURSIVE by_key(_)
        by_key(keys) ==
            IF keys = {} THEN << >>
            ELSE LET k == CHOOSE x \in keys :
                              \A y \in keys : IF reverse THEN x >= y ELSE x <= y
                 IN  SelectSeq(periods, LAMBDA q : q.ci = k) \o by_key(keys \ {k})
    IN  by_key({ periods[i].ci : i \in 1..Len(periods) })

sort_raises(periods) ==
    Len(periods) >= 2 /\ \E i \in 1..Len(periods) : periods[i].ci = NullCI

\* An allocation that spreads the budget: half the capacity per period.
allocated_energy_halved(period_capacity, remaining) ==
    Min2(period_capacity \div 2, remaining)

\* An allocation that gives every period its full capacity.
allocated_energy_uncapped(period_capacity, remaining) == period_capacity

\* min(period_capacity_kwh, remaining_headroom)
allocated_energy(period_capacity, remaining) == Min2(period_capacity, remaining)

\* round(x, 3) of an energy in kWh: to the nearest Wh.
round3(energy) == ((energy + 5) \div 10) * 10

\* power_kw * (minutes / 60), in tenths of a Wh
capacity_of(power_w, minutes) == (power_w * minutes) \div 6

\* (export_energy / discharge_power_kw) * 60, in minutes
minutes_of(energy, power_w) == (energy * 6) \div power_w

\* "Build plan greedily within headroom": the discharge planners.
RECURSIVE build_discharge_plan(_, _, _, _)
build_discharge_plan(future_periods, i, remaining_headroom, discharge_power_w) ==
    IF i > Len(future_periods) \/ remaining_headroom <= 0
    THEN << >>
    ELSE LET period == future_periods[i]
             export_energy ==
                 allocated_energy(capacity_of(discharge_power_w, period.to - period.from),
                                  remaining_headroom)
         IN  << [from |-> period.from, to |-> period.to,
                 duration_minutes |-> minutes_of(export_energy, discharge_power_w),
                 energy_kwh |-> export_energy, ci_value |-> period.ci] >>
             \o build_discharge_plan(future_periods, i + 1,
                                     remaining_headroom - export_energy, discharge_power_w)

\* "Allocate energy to lowest CI periods": the charge planner.
RECURSIVE build_charge_plan(_, _, _, _)
build_charge_plan(filtered_periods, i, remaining_energy, charge_power_w) ==
    IF i > Len(filtered_periods) \/ remaining_energy <= 0
    THEN << >>
    ELSE LET period == filtered_periods[i]
             energy ==
                 allocated_energy(capacity_of(charge_power_w, period.to - period.from),
                                  remaining_energy)
         IN  << [period_start |-> period.from, period_end |-> period.to,
                 energy_kwh |-> round3(energy), ci_value |-> period.ci] >>
             \o build_charge_plan(filtered_periods, i + 1, remaining_energy - energy,
                                  charge_power_w)

\* The periods the filter loop appends: candidates holds, for each period
\* of the forecast in turn, None when it is skipped or the entry appended.
keep_periods(candidates) ==
    LET Kept(candidate) == candidate # None
        kept == SelectSeq(candidates, Kept)
    IN  [i \in 1..Len(kept) |-> Val(kept[i])]

\* The filter loop run over the forecast with a test and an entry per period.
candidates_of(periods, keep, entry) ==
    [i \in 1..Len(periods) |-> IF keep[i] THEN Some(entry[i]) ELSE None]

\* A guard that does not look at the power.
no_plan_ignores_power(periods, budget, power) == periods = << >> \/ budget <= 0

\* "if not periods or headroom_kwh <= 0 or discharge_power_kw <= 0"
no_plan(periods, budget, power) == periods = << >> \/ budget <= 0 \/ power <= 0

\* The sorted candidates turned into a discharge plan.
discharge_plan_of(future_periods, budget, power_w) ==
    IF sort_raises(future_periods) THEN Raises
    ELSE IF power_w = 0 /\ future_periods # << >> /\ budget > 0
    THEN Raises                                 \* ZeroDivisionError
    ELSE Returns(build_discharge_plan(sort_periods(future_periods, TRUE), 1, budget,
                                      power_w))

generate_today_plan(periods, headroom_kwh, discharge_power_w, solar_generated, solar_predicted, window_start_time, window_end_time, t) ==
    IF no_plan(periods, headroom_kwh, discharge_power_w)
    THEN Returns(<< >>)
    ELSE LET today_energy_budget == Max2(solar_generated, solar_predicted)
             Keep(q) == /\ q.to > t
                        /\ day_of(q.from) = day_of(t)
                        /\ in_export_window(time_of(Max2(q.from, t)), time_of(q.to),
                                            window_start_time, window_end_time)
             Trim(q) == [q EXCEPT !.from = Max2(q.from, t)]
         IN  discharge_plan_of(keep_periods(candidates_of(periods,
                                   [i \in 1..Len(periods) |-> Keep(periods[i])],
                                   [i \in 1..Len(periods) |-> Trim(periods[i])])),
                               Min2(headroom_kwh, today_energy_budget), discharge_power_w)

generate_tomorrow_plan(periods, solar_predicted_tomorrow, discharge_power_w, window_start_time, window_end_time, t) ==
    IF no_plan(periods, solar_predicted_tomorrow, discharge_power_w)
    THEN Returns(<< >>)
    ELSE LET Keep(q) == /\ day_of(q.from) = day_of(t) + 1
                        /\ in_export_window(time_of(q.from), time_of(q.to),
                                            window_start_time, window_end_time)
             Trim(q) == q
         IN  discharge_plan_of(keep_periods(candidates_of(periods,
                                   [i \in 1..Len(periods) |-> Keep(periods[i])],
                                   [i \in 1..Len(periods) |-> Trim(periods[i])])),
                               solar_predicted_tomorrow, discharge_power_w)

\* The next charge window [start, end] as the charge planner finds it.
next_charge_window(window_start_time, window_end_time, t) ==
    LET current_time == time_of(t)
        overnight == window_start_time > window_end_time
        in_window ==
            IF ~overnight
            THEN window_start_time <= current_time /\ current_time <= window_end_time
            ELSE current_time >= window_start_time \/ current_time <= window_end_time
        next_window_start ==
            IF in_window THEN t
            ELSE IF ~overnight /\ current_time >= window_start_time
                 THEN at(day_of(t) + 1, window_start_time)
                 ELSE at(day_of(t), window_start_time)
        next_window_end ==
            IF ~overnight
            THEN at(day_of(next_window_start), window_end_time)
            ELSE at(day_of(next_window_start) + 1, window_end_time)
    IN  [start |-> next_window_start, end |-> next_window_end]

generate_next_charge_session(periods, current_soc, charge_power_w, window_start_time, window_end_time, battery_capacity_kwh, t) ==
    IF no_plan(periods, battery_capacity_kwh, charge_power_w) \/ current_soc >= 100
    THEN Returns(<< >>)
    ELSE LET energy_needed_kwh == ((100 - current_soc) * battery_capacity_kwh) \div 100
             w == next_charge_window(window_start_time, window_end_time, t)
             Keep(q) == /\ ~(q.to < w.start \/ q.from > w.end)
                        /\ Max2(q.from, w.start) < Min2(q.to, w.end)
             Trim(q) == [q EXCEPT !.from = Max2(q.from, w.start),
                                  !.to = Min2(q.to, w.end)]
             filtered_periods == keep_periods(candidates_of(periods,
                                   [i \in 1..Len(periods) |-> Keep(periods[i])],
                                   [i \in 1..Len(periods) |-> Trim(periods[i])]))
         IN  IF sort_raises(filtered_periods) THEN Raises
             ELSE Returns(build_charge_plan(sort_periods(filtered_periods, FALSE), 1,
                                            energy_needed_kwh, charge_power_w))

(***************************************************************************)
(* The planners called on their own.  The forecasts, budgets and powers    *)
(* are such that every division above is exact, except the rounding of the *)
(* charge planner, which is what round3 is there for.                      *)
(***************************************************************************)
\* A half-hour period of the forecast.
Period(from, ci) == [from |-> from, to |-> from + 30, ci |-> ci]

\* 10:00, 12:00, 12:30 and 15:00 of the first day.
ForecastDay == << Period(600, 100), Period(720, 250), Period(750, 250), Period(900, 50) >>
\* 12:00 and 23:00 of the first day, 02:00 and 12:00 of the second day.
ForecastNight ==
    << Period(720, 150), Period(1380, 300), Period(1560, 100), Period(2160, 200) >>
\* A forecast with a null intensity.
ForecastNull == << Period(720, NullCI), Period(750, 100) >>
Forecasts == {<< >>, ForecastDay, ForecastNight, ForecastNull}

\* 00:00-23:59 (the default), 10:00-15:15, and 23:00-06:00 overnight.
Windows == {<< 0, 1439 >>, << 600, 915 >>, << 1380, 360 >>}
\* The times the planners are called at: 02:00, 10:00, 10:15.
PlanTimes == {120, 600, 615}
DischargePowers == {0, 3000}
ChargePowers == {0, 3680}
Headrooms == {0, 10000, 25000, 100000}
SolarForecasts == {0, 50000}
ChargeSocs == {32, 100}
BatteryCapacities == {0, 51200}

notPlanned == << now, coordinatorState, circuit_breaker, ssc, upd, pure, event >>

GenerateTodayPlan(periods, headroom_kwh, power_w, solar_predicted, window, t) ==
    /\ UNCHANGED notPlanned
    /\ planned' =
        [planner |-> "today", periods |-> periods, guard |-> headroom_kwh,
         budget |-> Min2(headroom_kwh, Max2(0, solar_predicted)),
         power |-> power_w, window |-> window, t |-> t,
         out |-> generate_today_plan(periods, headroom_kwh, power_w, 0, solar_predicted,
                                     window[1], window[2], t)]

GenerateTomorrowPlan(periods, solar_predicted_tomorrow, power_w, window, t) ==
    /\ UNCHANGED notPlanned
    /\ planned' =
        [planner |-> "tomorrow", periods |-> periods, guard |-> solar_predicted_tomorrow,
         budget |-> solar_predicted_tomorrow,
         power |-> power_w, window |-> window, t |-> t,
         out |-> generate_tomorrow_plan(periods, solar_predicted_tomorrow, power_w,
                                        window[1], window[2], t)]

GenerateNextChargeSession(periods, current_soc, power_w, window, capacity, t) ==
    /\ UNCHANGED notPlanned
    /\ planned' =
        [planner |-> "charge", periods |-> periods, guard |-> 100 - current_soc,
         budget |-> ((100 - current_soc) * capacity) \div 100,
         power |-> power_w, window |-> window, t |-> t,
         out |-> generate_next_charge_session(periods, current_soc, power_w, window[1],
                                              window[2], capacity, t)]

NextPlan ==
    \/ \E periods \in Forecasts, headroom_kwh \in Headrooms, power_w \in DischargePowers,
          solar \in SolarForecasts, window \in Windows, t \in PlanTimes :
          GenerateTodayPlan(periods, headroom_kwh, power_w, solar, window, t)
    \/ \E periods \in Forecasts, solar \in SolarForecasts, power_w \in DischargePowers,
          window \in Windows, t \in PlanTimes :
          GenerateTomorrowPlan(periods, solar, power_w, window, t)
    \/ \E periods \in Forecasts, soc \in ChargeSocs, power_w \in ChargePowers,
          window \in Windows, capacity \in BatteryCapacities, t \in PlanTimes :
          GenerateNextChargeSession(periods, soc, power_w, window, capacity, t)

SpecPlan == Init /\ [][NextPlan]_vars

(***************************************************************************)
(* error_handler.py: safe_service_call as it runs.  ssc is its frame: pc   *)
(* the point it stands at, req how the request ended, requests the number  *)
(* of times the request was put to hass.services.async_call, elapsed the   *)
(* loop time since poll_start in tenths of a second, last_state the state  *)
(* of the entity read by the latest poll, result the value returned.       *)
(***************************************************************************)
PollReads == {"missing", "unavailable", "other", "close", "match"}

\* A call that issues the request again after a timeout.
after_request_retry(req, verify) ==
    IF req = "timeout" THEN "request"
    ELSE IF req = "raise" THEN "false"
    ELSE IF verify THEN "poll" ELSE "true"

\* Where the call stands once the awaited request has ended.
after_request(req, verify) ==
    IF req # "ok" THEN "false"                  \* except TimeoutError / Exception
    ELSE IF verify THEN "poll" ELSE "true"

\* A loop that gives up when the entity is not there or not available.
poll_step_fails_unavailable(elapsed, read) ==
    IF elapsed > STATE_VERIFICATION_MAX_WAIT THEN "false"
    ELSE IF read \in {"missing", "unknown", "unavailable"} THEN "false"
    ELSE IF read \in {"match", "close"} THEN "true"
    ELSE "sleep"

\* A loop that gives up on the first state that is not the expected one.
poll_step_fails_mismatch(elapsed, read) ==
    IF elapsed > STATE_VERIFICATION_MAX_WAIT THEN "false"
    ELSE IF read \in {"missing", "unknown", "unavailable"} THEN "sleep"
    ELSE IF read \in {"match", "close"} THEN "true"
    ELSE "false"

\* One iteration of the verification loop.
poll_step(elapsed, read) ==
    IF elapsed > STATE_VERIFICATION_MAX_WAIT THEN "false"
    ELSE IF read \in {"missing", "unknown", "unavailable"} THEN "sleep"
    ELSE IF read \in {"match", "close"} THEN "true"
    ELSE "sleep"

Returned(frame, to) ==
    IF to \in {"true", "false"}
    THEN [frame EXCEPT !.pc = "done", !.result = to]
    ELSE [frame EXCEPT !.pc = to]

\* safe_service_call is entered and puts the request on the bus.
SscCall(verify) ==
    /\ ssc.pc \in {"idle", "done"}
    /\ ssc' = [NoCall EXCEPT !.pc = "request", !.verify = verify, !.requests = 1]
    /\ UNCHANGED << now, coordinatorState, circuit_breaker, planned, upd, pure, event >>

\* asyncio.wait_for returns, times out or raises.
SscRequestEnds(req) ==
    LET to == after_request(req, ssc.verify)
    IN  /\ ssc.pc = "request"
        /\ ssc' = [Returned(ssc, to) EXCEPT
                      !.req = req,
                      !.requests = IF to = "request" THEN @ + 1 ELSE @]
        /\ UNCHANGED << now, coordinatorState, circuit_breaker, planned, upd, pure, event >>

\* The top of the loop: the deadline test, then hass.states.get(entity_id).
SscPoll(read) ==
    LET to == poll_step(ssc.elapsed, read)
    IN  /\ ssc.pc = "poll"
        /\ ssc' = [Returned(ssc, to) EXCEPT
                      !.last_state = IF ssc.elapsed > STATE_VERIFICATION_MAX_WAIT
                                     THEN @ ELSE read]
        /\ UNCHANGED << now, coordinatorState, circuit_breaker, planned, upd, pure, event >>

\* asyncio.sleep(STATE_VERIFICATION_POLL_INTERVAL) returns.
SscWake(overrun) ==
    /\ ssc.pc = "sleep"
    /\ ssc' = [ssc EXCEPT !.pc = "poll",
                          !.elapsed = @ + STATE_VERIFICATION_POLL_INTERVAL + overrun]
    /\ UNCHANGED << now, coordinatorState, circuit_breaker, planned, upd, pure, event >>

NextCall ==
    \/ \E verify \in BOOLEAN : SscCall(verify)
    \/ \E req \in Requests : SscRequestEnds(req)
    \/ \E read \in PollReads : SscPoll(read)
    \/ \E overrun \in 0..MaxOverrun : SscWake(overrun)

SpecCall == Init /\ [][NextCall]_vars

\* The event loop runs every coroutine that is ready: a pending request
\* ends (wait_for has a timeout), a sleep returns, the loop goes on.
SpecCallLive == SpecCall /\ WF_vars(NextCall)

(***************************************************************************)
(* coordinator.py: _async_update_data as it runs, stage by stage.  upd is  *)
(* its frame: in the readings and the configuration it took at its start,  *)
(* then the locals as the stages bind them, stages the stages it has run.  *)
(* Energies are in kWh here and in tenths of a Wh in the planners; the     *)
(* planners' clock is in minutes.  The discharge handlers run between two  *)
(* ticks: the tick does not await before its auto-trigger stage.           *)
(***************************************************************************)
UpdateStages == << "headroom", "duration", "auto_stop", "planning", "trigger", "publish" >>

\* A tick that plans before it has computed the duration.
next_stage_plans_first(stage) ==
    CASE stage = "headroom" -> "planning"
      [] stage = "planning" -> "duration"
      [] stage = "duration" -> "auto_stop"
      [] stage = "auto_stop" -> "trigger"
      [] stage = "trigger" -> "publish"
      [] stage = "publish" -> "idle"

\* The stage that follows a stage in the body of _async_update_data.
next_stage(stage) ==
    CASE stage = "headroom" -> "duration"
      [] stage = "duration" -> "auto_stop"
      [] stage = "auto_stop" -> "planning"
      [] stage = "planning" -> "trigger"
      [] stage = "trigger" -> "publish"
      [] stage = "publish" -> "idle"

\* The frame once a stage has run.
StageDone(frame, stage) ==
    [frame EXCEPT !.pc = next_stage(stage), !.stages = Append(@, stage)]

\* The frame of a tick that an exception has left.
StageRaised(frame, stage) ==
    [frame EXCEPT !.pc = "idle", !.stages = Append(@, stage), !.outcome = "raised"]

kwh(energy) == energy * 10000
minute_of(t) == t \div SECONDS_PER_MINUTE

\* should_stop_discharge, from this tick's readings and the session's record.
should_stop(in, headroom_kwh, active, start_export, target_energy) ==
    LET reserve_limit_reached ==
            in.reserve # None /\ Val(in.soc) < Val(in.reserve)
        discharge_complete ==
            /\ active /\ start_export # None
            /\ truthy(target_energy)
            /\ Val(in.grid) - Val(start_export) >= Val(target_energy)
    IN  active /\ (headroom_kwh <= 0 \/ discharge_complete \/ reserve_limit_reached)

\* A window of the next charge session as the auto-trigger reads it: the
\* planner writes period_start with its UTC offset.
trigger_windows(session) ==
    [i \in 1..Len(session) |->
        [start |-> session[i].period_start * SECONDS_PER_MINUTE,
         energy |-> session[i].energy_kwh, fmt |-> "aware"]]

\* The top of the tick: the sensors are read, UpdateFailed when one is missing.
UpdEnter(in) ==
    /\ upd.pc = "idle"
    /\ upd' = IF in.soc = None \/ in.pv = None \/ in.grid = None \/ in.sol = None
              THEN [NoUpdate EXCEPT !.in = Some(in), !.outcome = "update_failed"]
              ELSE [NoUpdate EXCEPT !.in = Some(in), !.pc = "headroom"]
    /\ UNCHANGED << now, coordinatorState, circuit_breaker, ssc, planned, pure, event >>

UpdHeadroom ==
    LET in == Val(upd.in)
        hr == calculate_export_headroom(Val(in.pv), Val(in.sol), Val(in.grid),
                                        safety_margin)
    IN  /\ upd.pc = "headroom"
        /\ upd' = [StageDone(upd, "headroom") EXCEPT
                      !.export_cap_kwh = Some(hr.export_cap),
                      !.headroom_kwh = Some(hr.headroom)]
        /\ UNCHANGED << now, coordinatorState, circuit_breaker, ssc, planned, pure, event >>

UpdDuration ==
    LET in == Val(upd.in)
        headroom_kwh == Val(upd.headroom_kwh)
        calculated_duration_minutes ==
            IF Val(in.soc) > min_soc /\ headroom_kwh > 0
            THEN IF in.target_export > 0
                 THEN calculate_discharge_duration(headroom_kwh, in.target_export, 10)
                 ELSE calculate_discharge_duration(headroom_kwh, headroom_kwh * 1000, 10)
            ELSE 0
    IN  /\ upd.pc = "duration"
        /\ upd' = [StageDone(upd, "duration") EXCEPT
                      !.duration = Some(calculated_duration_minutes)]
        /\ calculated_duration' = calculated_duration_minutes
        /\ UNCHANGED << now, control, dedup, chargeControl, data, last_update, pending,
                        handlers, circuit_breaker, ssc, planned, pure, event >>

\* The stop_discharge call is put on the bus; it runs after the tick.
UpdAutoStop ==
    LET stop == should_stop(Val(upd.in), Val(upd.headroom_kwh), discharge_active,
                            discharge_start_export, discharge_target_energy)
    IN  /\ upd.pc = "auto_stop"
        /\ stop => pending.stop_discharge < MaxPending
        /\ upd' = [StageDone(upd, "auto_stop") EXCEPT !.stop = Some(stop)]
        /\ pending' = [pending EXCEPT !.stop_discharge = @ + (IF stop THEN 1 ELSE 0)]
        /\ UNCHANGED << now, control, calculated_duration, dedup, chargeControl, data,
                        last_update, handlers, circuit_breaker, ssc, planned, pure, event >>

UpdPlanning ==
    LET in == Val(upd.in)
        headroom_kwh == Val(upd.headroom_kwh)
        t == minute_of(now)
        planning == in.periods # << >> /\ in.target_export > 0
        today == IF planning /\ headroom_kwh > 0
                 THEN generate_today_plan(in.periods, kwh(headroom_kwh), in.target_export,
                                          kwh(Val(in.pv)), kwh(Val(in.sol)),
                                          in.export_window[1], in.export_window[2], t)
                 ELSE Returns(<< >>)
        tomorrow == IF planning /\ truthy(in.sol_tomorrow)
                    THEN generate_tomorrow_plan(in.periods, kwh(Val(in.sol_tomorrow)),
                                                in.target_export, in.export_window[1],
                                                in.export_window[2], t)
                    ELSE Returns(<< >>)
        session == IF in.charge_planning /\ in.periods # << >>
                   THEN generate_next_charge_session(
                            in.periods, Val(in.soc), in.charge_power,
                            in.charge_window[1], in.charge_window[2],
                            in.battery_capacity, t)
                   ELSE Returns(<< >>)
    IN  /\ upd.pc = "planning"
        /\ upd' = IF today.raised \/ tomorrow.raised \/ session.raised
                  THEN StageRaised(upd, "planning")
                  ELSE [StageDone(upd, "planning") EXCEPT
                           !.plan_today = Some(today.plan),
                           !.plan_tomorrow = Some(tomorrow.plan),
                           !.session = Some(session.plan)]
        /\ UNCHANGED << now, coordinatorState, circuit_breaker, ssc, planned, pure, event >>

\* _check_and_trigger_auto_discharge is called with target_export_kwh, a
\* name _async_update_data does not bind; then _check_and_trigger_auto_charge.
UpdTrigger ==
    LET in == Val(upd.in)
        session == trigger_windows(Val(upd.session))
        name_error == in.auto_discharge /\ Val(upd.plan_today) # << >>
        ct == IF in.auto_charge /\ session # << >>
              THEN auto_trigger(session, last_auto_charge_window, charge_active, now)
              ELSE [last |-> last_auto_charge_window, fired |-> 0]
    IN  /\ upd.pc = "trigger"
        /\ IF name_error
           THEN /\ upd' = StageRaised(upd, "trigger")
                /\ UNCHANGED << dedup, chargeControl, pending >>
           ELSE /\ ct.fired > 0 => pending.start_charge < MaxPending
                /\ upd' = [StageDone(upd, "trigger") EXCEPT !.fired = Some(ct.fired)]
                /\ last_auto_charge_window' = ct.last
                /\ UNCHANGED last_auto_discharge_window
                /\ IF ct.fired > 0
                   THEN /\ set_charge_active(TRUE)
                        /\ pending' = [pending EXCEPT !.start_charge = @ + 1]
                   ELSE UNCHANGED << chargeControl, pending >>
        /\ UNCHANGED << now, control, calculated_duration, data, last_update, handlers,
                        circuit_breaker, ssc, planned, pure, event >>

\* return {...}: the DataUpdateCoordinator stores the snapshot.
UpdPublish ==
    /\ upd.pc = "publish"
    /\ upd' = [StageDone(upd, "publish") EXCEPT !.outcome = "published"]
    /\ data' = Some([headroom |-> Val(upd.headroom_kwh),
                     export_allowed |-> Val(upd.export_cap_kwh),
                     next_charge_session |-> trigger_windows(Val(upd.session))])
    /\ last_update' = Some(now)
    /\ UNCHANGED << now, control, calculated_duration, dedup, chargeControl, pending,
                    handlers, circuit_breaker, ssc, planned, pure, event >>

\* Readings present or one of them missing, under the configurations:
\* reserve observed or not, target power set or not, a forecast or none,
\* auto-discharge and charge planning on or off.
UpdInputs ==
    { in \in [soc : TickSocReadings, pv : {Some(1)}, grid : {None, Some(0), Some(1)},
              sol : {Some(0)}, reserve : ReserveReadings, target_export : TargetExports,
              periods : {<< >>, ForecastDay}, sol_tomorrow : {None},
              export_window : {<< 0, 1439 >>}, charge_window : {<< 600, 900 >>},
              charge_power : {3680}, battery_capacity : {100000},
              auto_discharge : BOOLEAN, charge_planning : BOOLEAN,
              auto_charge : BOOLEAN] :
        /\ in.auto_charge <=> in.charge_planning
        /\ in.auto_discharge => in.target_export > 0
        /\ in.periods # << >> <=> in.target_export > 0
        /\ in.charge_planning => in.periods # << >>
        /\ Missing(in) = 1 =>
              /\ in.reserve = None /\ in.target_export = 0
              /\ in.grid \in {None, Some(0)}
              /\ in.soc \in {None, Some(50)} }

\* The discharge handlers run to their end between two ticks.
UpdStartBegin ==
    upd.pc = "idle" /\ StartDischargeBegin("user", Some(50), 1000)
UpdStartPower ==
    upd.pc = "idle" /\ \E c \in HandlerOutcomes :
                          StartDischargePower(MaxFailures, c, "enable")
UpdStartEnable ==
    upd.pc = "idle" /\ \E c \in HandlerOutcomes :
                          StartDischargeEnable(MaxFailures, c, Some(0))
UpdStop ==
    upd.pc = "idle" /\ \E c \in HandlerOutcomes : StopDischarge(MaxFailures, "auto", c)

NextUpdate ==
    \/ \E in \in UpdInputs : UpdEnter(in)
    \/ UpdHeadroom
    \/ UpdDuration
    \/ UpdAutoStop
    \/ UpdPlanning
    \/ UpdTrigger
    \/ UpdPublish
    \/ UpdStartBegin
    \/ UpdStartPower
    \/ UpdStartEnable
    \/ UpdStop

SpecUpdate == Init /\ [][NextUpdate]_vars

(***************************************************************************)
(* coordinator.py: _parse_ci_forecast.  A Python value out of json.loads   *)
(* or of the sensor's attributes is a record: its type, the items of a     *)
(* list, and of a dict the value under "data" and under "shortname" (None  *)
(* when the key is not there).                                             *)
(***************************************************************************)
Value(type, items, d, shortname) ==
    [type |-> type, items |-> items, data |-> d, shortname |-> shortname]

PyNone == Value("null", << >>, None, None)
PyNumber == Value("number", << >>, None, None)
PyList(items) == Value("list", items, None, None)
PyDict(d, shortname) == Value("dict", << >>, d, shortname)

\* dict.get(key): the value, or None when the key is missing
get_data(dict) == IF dict.data = None THEN PyNone ELSE Val(dict.data)
get_shortname(dict) == IF dict.shortname = None THEN PyNone ELSE Val(dict.shortname)

\* json.loads(text): the value, or None where the parser catches the error
json_loads(text) == IF text.kind = "json" THEN text.value ELSE PyNone

\* Python truthiness of a state string, of the attributes, of a period list
truthy_text(state) == state # None /\ Val(state).kind # "empty"
truthy_dict(dict) == dict # None /\ (Val(dict).data # None \/ Val(dict).shortname # None)
truthy_list(periods) == periods # None /\ Val(periods) # << >>

\* "Some integrations expose list of periods directly": return at once.
attributes_list(attr_data, loaded) == [returns |-> TRUE, data |-> loaded]

parse_ci_forecast(sensor_state_str, attributes) ==
    LET loaded == IF truthy_text(sensor_state_str)
                  THEN json_loads(Val(sensor_state_str))
                  ELSE PyNone
        use_attributes == loaded = PyNone /\ truthy_dict(attributes)
        attr_data == IF use_attributes THEN get_data(Val(attributes)) ELSE PyNone
        fallback ==
            IF use_attributes /\ attr_data.type = "dict"
            THEN [returns |-> FALSE, data |-> attr_data]
            ELSE IF use_attributes /\ attr_data.type = "list"
            THEN attributes_list(attr_data, loaded)
            ELSE [returns |-> FALSE, data |-> loaded]
        \* data, once the state and the attributes have been looked at
        payload == fallback.data
        raw_periods == get_data(payload)
        periods ==
            IF raw_periods.type = "list" THEN Some(raw_periods.items)
            ELSE IF raw_periods.type = "dict" /\ raw_periods.data = None
            THEN Some(<< >>)                    \* raw_periods.get("data", [])
            ELSE IF raw_periods.type = "dict" /\ get_data(raw_periods).type = "list"
            THEN Some(get_data(raw_periods).items)
            ELSE None
    IN  IF fallback.returns
        THEN Some([periods |-> attr_data.items,
                   region |-> get_shortname(Val(attributes))])
        ELSE IF payload.type # "dict" THEN None
        ELSE IF payload.data = None THEN None      \* "data" not in data
        ELSE IF ~truthy_list(periods) THEN None
        ELSE Some([periods |-> Val(periods), region |-> get_shortname(payload)])

(***************************************************************************)
(* The parser called on its own, over payloads of every shape it tells     *)
(* apart.                                                                  *)
(***************************************************************************)
PeriodLists == {<< >>, << "period" >>}
Shortnames == {None, Some(Value("str", << >>, None, None))}

\* What can stand under "data" of the inner dict, then of the outer one.
InnerValues ==
    {PyNone, PyNumber} \cup { PyList(items) : items \in PeriodLists }
MiddleValues ==
    InnerValues \cup { PyDict(d, None) : d \in {None} \cup { Some(v) : v \in InnerValues } }
Payloads ==
    { PyDict(d, shortname) :
        d \in {None} \cup { Some(v) : v \in MiddleValues }, shortname \in Shortnames }

\* The state of the sensor: none, "", text that is not JSON, or JSON text.
SensorStates ==
    {None, Some([kind |-> "empty", value |-> PyNone]),
     Some([kind |-> "invalid", value |-> PyNone])}
    \cup { Some([kind |-> "json", value |-> v]) :
              v \in {PyNone, PyNumber, PyList(<< "period" >>)} \cup Payloads }
Attributes == {None} \cup { Some(dict) : dict \in Payloads }

notPure == << now, coordinatorState, circuit_breaker, ssc, planned, upd, event >>

ParseCIForecast(sensor_state_str, attributes) ==
    /\ pure' = [method |-> "parse_ci_forecast", state |-> sensor_state_str,
                attributes |-> attributes,
                out |-> parse_ci_forecast(sensor_state_str, attributes)]
    /\ UNCHANGED notPure

NextParse ==
    \E sensor_state_str \in SensorStates, attributes \in Attributes :
        ParseCIForecast(sensor_state_str, attributes)

SpecParse == Init /\ [][NextParse]_vars

(***************************************************************************)
(* __init__.py: handle_start_charge and handle_stop_charge.  Their calls   *)
(* go to the bus with blocking=True and are not wrapped: a call that       *)
(* raises ends the handler.                                                *)
(***************************************************************************)
\* sorted(charge_session, key=fromisoformat(period_start)) compares the
\* start times: a time without offset against one with an offset (the
\* default of a missing key has one) raises TypeError.
session_sortable(charge_session) ==
    \A i, j \in 1..Len(charge_session) :
        (charge_session[i].fmt = "naive") <=> (charge_session[j].fmt = "naive")

\* Where handle_start_charge stands after the call it awaited.
after_charge_call(pc, req) ==
    IF req # "ok" THEN "raised"
    ELSE IF pc = "power" THEN "duration"
    ELSE IF pc = "duration" THEN "cutoff"
    ELSE IF pc = "cutoff" THEN "enable"
    ELSE "active"

StartChargeBegin(origin, configured) ==
    LET outcome ==
            IF data = None THEN "no_data"
            ELSE IF Val(data).next_charge_session = << >> THEN "no_session"
            ELSE IF ~configured THEN "not_configured"
            ELSE IF ~session_sortable(Val(data).next_charge_session) THEN "raised"
            ELSE "power"
    IN  /\ sc_pc = "idle"
        /\ origin = "auto" => pending.start_charge > 0
        /\ pending' = IF origin = "auto"
                      THEN [pending EXCEPT !.start_charge = @ - 1]
                      ELSE pending
        /\ sc_pc' = IF outcome = "power" THEN "power" ELSE "idle"
        /\ event' = [Ev("start_charge", outcome,
                        IF outcome = "power" THEN "charge_power" ELSE "none", FALSE)
                        EXCEPT !.origin = origin]
        /\ UNCHANGED << calls, now, control, calculated_duration, dedup, chargeControl, data,
                        last_update, circuit_breaker, sd_pc, sd_origin >>

\* The awaited call returned or raised: power, duration, cutoff SOC, then
\* the charge button; set_charge_active(True) after the last.
StartChargeCall(req) ==
    LET to == after_charge_call(sc_pc, req)
    IN  /\ sc_pc \in {"power", "duration", "cutoff", "enable"}
        /\ sc_pc' = IF to \in {"raised", "active"} THEN "idle" ELSE to
        /\ IF to = "active" THEN set_charge_active(TRUE) ELSE UNCHANGED chargeControl
        /\ event' = Ev("start_charge", IF to = "active" THEN "started" ELSE to,
                       IF to \in {"raised", "active"} THEN "none"
                       ELSE IF to = "enable" THEN "charge_turn_on" ELSE to,
                       req = "ok")
        /\ UNCHANGED << calls, now, control, calculated_duration, dedup, data, last_update,
                        circuit_breaker, pending, sd_pc, sd_origin >>

StopCharge(configured, req) ==
    LET outcome == IF ~configured THEN "not_configured"
                   ELSE IF req # "ok" THEN "raised"
                   ELSE "stopped"
    IN  /\ IF outcome = "stopped"
           THEN set_charge_active(FALSE)
           ELSE UNCHANGED chargeControl
        /\ event' = Ev("stop_charge", outcome,
                       IF configured THEN "charge_turn_off" ELSE "none",
                       outcome = "stopped")
        /\ UNCHANGED << calls, now, control, calculated_duration, dedup, data, last_update,
                        circuit_breaker, pending, handlers >>

(***************************************************************************)
(* Both sessions: ticks that plan a charge window and may trigger it, the  *)
(* discharge trigger, and the start and stop handlers of both controls.    *)
(***************************************************************************)
SessionTicks ==
    { [HealthyTick EXCEPT !.auto_charge = auto, !.session = session,
                          !.call_raises = raises] :
        auto \in BOOLEAN, session \in {<< >>, << WindowA >>}, raises \in BOOLEAN }

NextSessions ==
    \/ \E in \in SessionTicks : Tick(in)
    \/ \E raises \in BOOLEAN : TriggerDischarge(<< WindowA >>, raises)
    \/ \E origin \in Origins : StartDischargeBegin(origin, Some(50), 1000)
    \/ \E c \in HandlerOutcomes : StartDischargePower(MaxFailures, c, "enable")
    \/ \E c \in HandlerOutcomes : StartDischargeEnable(MaxFailures, c, Some(0))
    \/ \E c \in HandlerOutcomes : StopDischarge(MaxFailures, "user", c)
    \/ \E origin \in Origins, configured \in BOOLEAN : StartChargeBegin(origin, configured)
    \/ \E req \in {"ok", "raise"} : StartChargeCall(req)
    \/ \E configured \in BOOLEAN, req \in {"ok", "raise"} : StopCharge(configured, req)

SpecSessions == Init /\ [][NextSessions]_vars

\* A call whose request is accepted and whose first poll sees the state.
CallDone == [req |-> "ok", reads |-> << "match" >>]

(***************************************************************************)
(* The trigger over plans that are not in the order of their start times:  *)
(* the planners order the windows by intensity.  The start handler takes   *)
(* the call of the trigger and refuses it (the battery is at its minimum), *)
(* the stop handler ends the session the trigger marked active.            *)
(***************************************************************************)
\* The window of least intensity, first in its plan, starts last.
WindowLate == [start |-> 120, energy |-> 2, fmt |-> "naive"]

OrderPlans ==
    {<< >>, << WindowA, WindowLate >>, << WindowLate, WindowA >>,
     << WindowAware, WindowLate, WindowB >>}

OrderTrigger(discharge_plan, call_raises) == TriggerDischarge(discharge_plan, call_raises)

NextOrder ==
    \/ \E plan \in OrderPlans, raises \in BOOLEAN : OrderTrigger(plan, raises)
    \/ StartDischargeBegin("auto", Some(min_soc), 1000)
    \/ StopDischarge(MaxFailures, "user", CallDone)
    \/ Tock(SECONDS_PER_MINUTE, MaxNowTrigger)

SpecOrder == Init /\ [][NextOrder]_vars

(***************************************************************************)
(* Both triggers with the handlers that take their calls: the charge       *)
(* trigger in the tick, the discharge trigger on its own, plans of two     *)
(* windows in either order, the clock at the start of the first window or *)
(* of the second.  The bus refuses a call (call_raises) when the service   *)
(* is not registered; a call it accepts runs the handler later.            *)
(***************************************************************************)
TriggerPlans == {<< >>, << WindowA, WindowLate >>}
TriggerSessions == {<< >>, << WindowLate, WindowA >>}

TriggerTicks ==
    { [HealthyTick EXCEPT !.auto_charge = TRUE, !.session = session,
                          !.call_raises = raises] :
        session \in TriggerSessions, raises \in BOOLEAN }

TriggerTick(in) == Tick(in)

TriggerCall(discharge_plan, call_raises) == TriggerDischarge(discharge_plan, call_raises)

NextTriggers ==
    \/ \E in \in TriggerTicks : TriggerTick(in)
    \/ \E plan \in TriggerPlans, raises \in BOOLEAN : TriggerCall(plan, raises)
    \/ StartDischargeBegin("auto", Some(min_soc), 1000)
    \/ StopDischarge(MaxFailures, "user", CallDone)
    \/ \E configured \in BOOLEAN : StartChargeBegin("auto", configured)
    \/ \E req \in {"ok", "raise"} : StartChargeCall(req)
    \/ StopCharge(TRUE, "ok")
    \/ Tock(WindowLate.start, MaxNowTrigger)

SpecTriggers == Init /\ [][NextTriggers]_vars

\* The coordinator's timer runs the ticks for ever, and with them the calls
\* of the triggers.
SpecTriggersLive ==
    /\ SpecTriggers
    /\ WF_vars(\E in \in TriggerTicks : TriggerTick(in))
    /\ WF_vars(\E plan \in TriggerPlans, raises \in BOOLEAN : TriggerCall(plan, raises))

(***************************************************************************)
(* Ticks while the start_discharge handler that the trigger called is in   *)
(* flight.  The export meter reads the same in every tick and in the       *)
(* handler: nothing is exported during any session.                        *)
(***************************************************************************)
InflightTick ==
    [HealthyTick EXCEPT !.pv = Some(3), !.grid = Some(1)]

InflightTrigger(call_raises) == TriggerDischarge(<< WindowA >>, call_raises)

NextInflight ==
    \/ Tick(InflightTick)
    \/ \E raises \in BOOLEAN : InflightTrigger(raises)
    \/ StartDischargeBegin("auto", Some(50), 1000)
    \/ \E c \in HandlerOutcomes : StartDischargePower(MaxFailures, c, "enable")
    \/ \E c \in HandlerOutcomes : StartDischargeEnable(MaxFailures, c, InflightTick.grid)
    \/ \E origin \in Origins, c \in HandlerOutcomes : StopDischarge(MaxFailures, origin, c)
    \/ Tock(SECONDS_PER_MINUTE, MaxNowTrigger)

SpecInflight == Init /\ [][NextInflight]_vars

(***************************************************************************)
(* The auto-stop as it repeats: ticks that see headroom left or none, the  *)
(* user's start, and the stop_discharge calls the ticks put on the bus,    *)
(* each of which may fail.                                                 *)
(***************************************************************************)
StopTicks == { [HealthyTick EXCEPT !.grid = grid] : grid \in {Some(0), Some(1)} }

StopTick == \E in \in StopTicks : Tick(in)

StopSucceeds == StopDischarge(MaxFailures, "auto", CallDone)

StopAttempt == \E c \in HandlerOutcomes : StopDischarge(MaxFailures, "auto", c)

NextStop ==
    \/ StopTick
    \/ StartDischargeBegin("user", Some(50), 1000)
    \/ \E c \in HandlerOutcomes : StartDischargePower(MaxFailures, c, "enable")
    \/ \E c \in HandlerOutcomes : StartDischargeEnable(MaxFailures, c, Some(0))
    \/ StopAttempt

SpecStop == Init /\ [][NextStop]_vars

\* The coordinator's timer runs the ticks for ever; the bus runs every call
\* put on it; of the turn-off commands sent again and again, one succeeds
\* and verifies.
SpecStopLive == SpecStop /\ WF_vars(StopTick) /\ WF_vars(StopAttempt) /\ SF_vars(StopSucceeds)

(***************************************************************************)
(* coordinator.py: _get_sensor_value.  state is what hass.states holds for *)
(* the entity: "absent" when it holds nothing, STATE_UNKNOWN,              *)
(* STATE_UNAVAILABLE, or the text of the state; float() raises ValueError  *)
(* on a text that is not a number.                                         *)
(***************************************************************************)
STATE_UNKNOWN == "unknown"
STATE_UNAVAILABLE == "unavailable"

\* float(text): the number the text writes, None for ValueError.
float_of(text) ==
    CASE text = "30" -> Some(30)
      [] text = "60" -> Some(60)
      [] OTHER -> None

\* A reader that takes an entity without a reading to be full.
get_sensor_value_full(state) ==
    IF state = "absent" \/ state \in {STATE_UNKNOWN, STATE_UNAVAILABLE}
    THEN Some(100)
    ELSE float_of(state)

get_sensor_value(state) ==
    IF state = "absent" \/ state \in {STATE_UNKNOWN, STATE_UNAVAILABLE}
    THEN None
    ELSE float_of(state)

(***************************************************************************)
(* The tick, stage by stage, with the reserve point observed or not and    *)
(* its entity in each state it can be in; the charge level is below every  *)
(* reserve the point can report, or above the lowest.  The user starts a   *)
(* discharge between two ticks; the export meter moves or stands still.    *)
(***************************************************************************)
ReserveStates == {"absent", STATE_UNKNOWN, STATE_UNAVAILABLE, "high", "30", "60"}
UnreadableStates == {"absent", STATE_UNKNOWN, STATE_UNAVAILABLE, "high"}

\* reserve_soc_target is read only when the point is configured and observed.
ReserveInput(soc, grid, observe_reserve_soc, state) ==
    [soc |-> soc, pv |-> Some(1), grid |-> grid, sol |-> Some(0),
     observe |-> observe_reserve_soc, reserve_state |-> state,
     reserve |-> IF observe_reserve_soc THEN get_sensor_value(state) ELSE None,
     target_export |-> 1000, periods |-> << >>, sol_tomorrow |-> None,
     export_window |-> << 0, 1439 >>, charge_window |-> << 600, 900 >>,
     charge_power |-> 3680, battery_capacity |-> 100000,
     auto_discharge |-> FALSE, charge_planning |-> FALSE, auto_charge |-> FALSE]

ReserveInputs ==
    { ReserveInput(soc, grid, observe, state) :
        soc \in {Some(25), Some(50)}, grid \in {Some(0), Some(1)},
        observe \in BOOLEAN, state \in ReserveStates }

ReserveEnter == \E in \in ReserveInputs : UpdEnter(in)

NextReserve ==
    \/ ReserveEnter
    \/ UpdHeadroom
    \/ UpdDuration
    \/ UpdAutoStop
    \/ UpdPlanning
    \/ UpdTrigger
    \/ UpdPublish
    \/ UpdStartBegin
    \/ UpdStartPower
    \/ UpdStartEnable
    \/ UpdStop

SpecReserve == Init /\ [][NextReserve]_vars

(***************************************************************************)
(* __init__.py: handle_start_discharge, the duration it computes from the  *)
(* snapshot (l.218-261) and what it sends to the duration point and to the *)
(* timer (l.313-357).  The handler's duration is a float that is not       *)
(* rounded: it is kept as a fraction, in minutes.  auto_window is what     *)
(* coordinator.get_auto_window_duration_minutes() returns.                 *)
(***************************************************************************)
\* round(x) of a non-negative fraction, halves to the even integer.
round_half_even(num, den) ==
    LET q == num \div den
        r == num % den
    IN  IF 2 * r < den THEN q
        ELSE IF 2 * r > den THEN q + 1
        ELSE IF q % 2 = 0 THEN q ELSE q + 1

\* duration_minutes: the auto window when there is one, else headroom / kW * 60.
handler_duration_minutes(headroom, target_export_w, auto_window_minutes) ==
    IF truthy(auto_window_minutes)
    THEN [num |-> Val(auto_window_minutes), den |-> 1]
    ELSE [num |-> headroom * 1000 * SECONDS_PER_MINUTE, den |-> target_export_w]

\* total_seconds = max(int(round(duration_minutes * 60)), 1)
timer_total_seconds(duration_minutes) ==
    Max2(round_half_even(duration_minutes.num * SECONDS_PER_MINUTE, duration_minutes.den), 1)

\* f"{hours:02d}:{minutes:02d}:{seconds:02d}"
timer_duration_str(total_seconds) ==
    << total_seconds \div 3600, (total_seconds % 3600) \div SECONDS_PER_MINUTE,
       total_seconds % SECONDS_PER_MINUTE >>

HandleStartDischargeDuration(target_export_w, enable_auto_discharge, auto_window) ==
    LET headroom == Val(data).headroom
        auto_window_minutes == IF enable_auto_discharge THEN auto_window ELSE None
        duration_minutes ==
            handler_duration_minutes(headroom, target_export_w, auto_window_minutes)
        total_seconds == timer_total_seconds(duration_minutes)
    IN  /\ upd.pc = "idle"
        /\ data # None
        /\ headroom > 0
        /\ target_export_w > 0
        /\ pure' = [method |-> "handle_start_discharge", headroom |-> headroom,
                    target_export_w |-> target_export_w,
                    auto_window_minutes |-> auto_window_minutes,
                    duration_minutes |-> duration_minutes,
                    total_seconds |-> total_seconds,
                    duration_str |-> timer_duration_str(total_seconds)]
        /\ UNCHANGED notPure

(***************************************************************************)
(* The tick that stores _calculated_duration and the handler that computes *)
(* its own: healthy sensors, no planning, the target power one of two, the *)
(* auto-discharge switch on or off, an auto window known or not.           *)
(***************************************************************************)
HandlerPowers == {1000, 3000}
AutoWindows == {None, Some(30)}

HandlerTickInputs ==
    { in \in [soc : {Some(50)}, pv : {Some(1), Some(2)}, grid : {Some(0), Some(1)},
              sol : {Some(0)}, reserve : {None}, target_export : HandlerPowers,
              periods : {<< >>}, sol_tomorrow : {None},
              export_window : {<< 0, 1439 >>}, charge_window : {<< 600, 900 >>},
              charge_power : {3680}, battery_capacity : {100000},
              auto_discharge : {FALSE}, charge_planning : {FALSE},
              auto_charge : {FALSE}] : TRUE }

HandlerTickEnter == \E in \in HandlerTickInputs : UpdEnter(in)

NextHandlerDuration ==
    \/ HandlerTickEnter
    \/ UpdHeadroom
    \/ UpdDuration
    \/ UpdAutoStop
    \/ UpdPlanning
    \/ UpdTrigger
    \/ UpdPublish
    \/ \E w \in HandlerPowers, enable \in BOOLEAN, auto_window \in AutoWindows :
          HandleStartDischargeDuration(w, enable, auto_window)

SpecHandlerDuration == Init /\ [][NextHandlerDuration]_vars

(***************************************************************************)
(* The auto-triggers across midnight: the clock runs half a day between    *)
(* ticks, the plans hold a window at 00:00 of the first or the second day. *)
(* The start handlers take the calls of the triggers and refuse them (the  *)
(* battery is at its minimum, the charge entities are not configured); the *)
(* stop handlers end the sessions the triggers marked active.              *)
(***************************************************************************)
WindowNextDay == [start |-> SECONDS_PER_DAY, energy |-> 1, fmt |-> "naive"]

RolloverPlans == {<< >>, << WindowA >>, << WindowNextDay >>}

RolloverTicks ==
    { [HealthyTick EXCEPT !.auto_charge = auto, !.session = session] :
        auto \in BOOLEAN, session \in RolloverPlans }

RolloverTick(in) == Tick(in)

RolloverTrigger(discharge_plan) == TriggerDischarge(discharge_plan, FALSE)

NextRollover ==
    \/ \E in \in RolloverTicks : RolloverTick(in)
    \/ \E plan \in RolloverPlans : RolloverTrigger(plan)
    \/ StartDischargeBegin("auto", Some(min_soc), 1000)
    \/ StopDischarge(MaxFailures, "user", CallDone)
    \/ StartChargeBegin("auto", FALSE)
    \/ StopCharge(TRUE, "ok")
    \/ Tock(SECONDS_PER_DAY \div 2, MaxNowRollover)

SpecRollover == Init /\ [][NextRollover]_vars

(***************************************************************************)
(* coordinator.py: the calculators called on their own, and the tick that  *)
(* publishes what _calculate_export_headroom returns.  Energies in kWh,    *)
(* powers in W, the buffer in percent, durations in tenths of a minute.    *)
(***************************************************************************)
DurationHeadrooms == 0..3
DurationPowers == {0, 1000, 1100, 3000, 7000}
Buffers == {0, 10, 25}
CalcEnergies == 0..2
CalcExports == 0..4
Margins == {0, 1}

CalculateDischargeDuration(headroom_kwh, target_export_w, buffer_pct) ==
    /\ upd.pc = "idle"
    /\ pure' = [method |-> "calculate_discharge_duration", headroom_kwh |-> headroom_kwh,
                target_export_w |-> target_export_w, buffer |-> buffer_pct,
                out |-> calculate_discharge_duration(headroom_kwh, target_export_w,
                                                     buffer_pct)]
    /\ UNCHANGED notPure

CalculateExportHeadroom(pv_energy_today, solcast_total_today, grid_feed_today, margin) ==
    /\ upd.pc = "idle"
    /\ pure' = [method |-> "calculate_export_headroom", pv |-> pv_energy_today,
                sol |-> solcast_total_today, grid |-> grid_feed_today, margin |-> margin,
                out |-> calculate_export_headroom(pv_energy_today, solcast_total_today,
                                                  grid_feed_today, margin)]
    /\ UNCHANGED notPure

\* Ticks with healthy sensors and no planning: the export read runs from
\* nothing to more than the cap.
CalcTickInputs ==
    { in \in [soc : {Some(50)}, pv : {Some(1)}, grid : { Some(e) : e \in 0..3 },
              sol : {Some(0), Some(2)}, reserve : {None}, target_export : {1000},
              periods : {<< >>}, sol_tomorrow : {None},
              export_window : {<< 0, 1439 >>}, charge_window : {<< 600, 900 >>},
              charge_power : {3680}, battery_capacity : {100000},
              auto_discharge : {FALSE}, charge_planning : {FALSE},
              auto_charge : {FALSE}] : TRUE }

NextCalc ==
    \/ \E headroom_kwh \in DurationHeadrooms, target_export_w \in DurationPowers,
          buffer_pct \in Buffers :
          CalculateDischargeDuration(headroom_kwh, target_export_w, buffer_pct)
    \/ \E pv \in CalcEnergies, sol \in CalcEnergies, grid \in CalcExports,
          margin \in Margins :
          CalculateExportHeadroom(pv, sol, grid, margin)
    \/ \E in \in CalcTickInputs : UpdEnter(in)
    \/ UpdHeadroom
    \/ UpdDuration
    \/ UpdAutoStop
    \/ UpdPlanning
    \/ UpdTrigger
    \/ UpdPublish

SpecCalc == Init /\ [][NextCalc]_vars

(***************************************************************************)
(* Properties of the running integration (Spec, SpecClock).                *)
(***************************************************************************)
PointCommands == {"power", "cutoff", "duration", "timer", "turn_on", "turn_off"}

\* A step of Spec by which handle_start_discharge starts running.
StartReceived == sd_pc = "idle" /\ event'.op = "start_discharge"

\* C2: every tick that runs while discharge is active and sees no headroom,
\* the export target reached or the SOC below the reserve requests
\* stop_discharge.
C2_StopRequestedAtLimit ==
    (event.op = "tick" /\ event.outcome # "update_failed" /\ event.obs.limit)
        => event.obs.stop

\* C3 as stated: when a tick has seen the export target reached, the
\* discharge is inactive when the following tick begins.
C3_IdleAtFollowingTick ==
    (event.op = "tick" /\ event.prior \in {"reached", "stopped"}) => ~event.obs.active

\* C3, amended: when a tick has seen the export target reached, the
\* discharge is still active when the following tick begins unless a
\* stop_discharge handler had its turn-off verified in between.
C3_ActiveUntilStopVerified ==
    (event.op = "tick" /\ event.prior = "reached") => event.obs.active

C3_Witness ==
    event.op = "tick" /\ event.prior = "reached" /\ event.obs.active

\* C5: a start_discharge received while the data is stale (never updated,
\* or older than max_age_seconds) issues no point command and leaves the
\* control state as it was, so an inactive discharge stays inactive.
C5_StaleStartRefused ==
    [][ (StartReceived
         /\ (last_update = None \/ now - Val(last_update) > max_age_seconds))
        => /\ event'.cmd = "none"
           /\ sd_pc' = "idle"
           /\ UNCHANGED control ]_vars

C5_Witness ==
    /\ event.op = "start_discharge"
    /\ event.outcome = "stale_data"
    /\ last_update # None
    /\ now - Val(last_update) > max_age_seconds
    /\ ~discharge_active

\* C6: while the latest published headroom is <= 0, no enable command is
\* issued and the discharge does not become active.
C6_NoStartWithoutHeadroom ==
    (event.op = "start_discharge" /\ data # None /\ Val(data).headroom <= 0)
        => (event.cmd # "turn_on" /\ event.outcome # "started")

\* C7 as stated: a failed actuation step of start_discharge (power, cutoff,
\* enable) aborts the transition: no later step is issued.
C7_AbortOnAnyFailure ==
    (event.op = "start_discharge" /\ event.outcome = "cutoff_failed")
        => (event.cmd = "none" /\ sd_pc = "idle")

\* C7, amended: a failed power set-point or a failed enable aborts the
\* transition (no later command, handler over, control state as before); a
\* failed cutoff set-point is logged and the handler issues its next command.
C7_AbortOnPowerOrEnableFailure ==
    [][ /\ (sd_pc \in {"power", "enable"} /\ event'.op = "start_discharge"
            /\ ~event'.result)
           => (event'.cmd = "none" /\ sd_pc' = "idle" /\ UNCHANGED control)
        /\ (sd_pc = "cutoff" /\ event'.op = "start_discharge" /\ ~event'.result)
           => (event'.cmd \in PointCommands /\ sd_pc' # "idle" /\ UNCHANGED control)
      ]_vars

C7_Witness ==
    /\ event.op = "start_discharge"
    /\ event.outcome \in {"discharge_power_set_failed", "discharge_start_failed"}
    /\ sd_pc = "idle"
    /\ ~discharge_active

\* C8: a stop_discharge whose turn-off fails or is not verified leaves the
\* control state as it was; the discharge goes from active to inactive only
\* in a stop_discharge whose turn-off was verified.
C8_StopOnlyWhenVerified ==
    [][ /\ (event'.op = "stop_discharge" /\ ~event'.result) => UNCHANGED control
        /\ (discharge_active /\ ~discharge_active')
           => (event'.op = "stop_discharge" /\ event'.result) ]_vars

C8_Witness ==
    /\ event.op = "stop_discharge"
    /\ ~event.result
    /\ discharge_active

\* C15: a tick that fails leaves the discharge and charge control state,
\* the window dedup keys and the published snapshot as they were, and puts
\* no start or stop request on the bus.
C15_FailedTickChangesNothing ==
    [][ (event'.op = "tick" /\ ~event'.result)
        => UNCHANGED << control, chargeControl, dedup, data, pending >> ]_vars

(***************************************************************************)
(* Properties of the tick as it runs (SpecUpdate).                         *)
(***************************************************************************)
\* The stages the running tick has been through, among the five named.
NamedStages == << "headroom", "duration", "planning", "trigger", "publish" >>
StagesRun ==
    LET Named(stage) == \E i \in 1..Len(NamedStages) : NamedStages[i] = stage
    IN  SelectSeq(upd.stages, Named)

\* The headroom of the readings the running tick took at its start.
HeadroomOfReadings ==
    LET in == Val(upd.in)
    IN  calculate_export_headroom(Val(in.pv), Val(in.sol), Val(in.grid),
                                  safety_margin).headroom

\* The next charge session planned from those readings.
SessionOfReadings ==
    LET in == Val(upd.in)
    IN  IF in.charge_planning /\ in.periods # << >>
        THEN generate_next_charge_session(in.periods, Val(in.soc), in.charge_power,
                                          in.charge_window[1], in.charge_window[2],
                                          in.battery_capacity, minute_of(now)).plan
        ELSE << >>

StopRequested == pending'.stop_discharge > pending.stop_discharge
StartRequested ==
    \/ pending'.start_charge > pending.start_charge
    \/ pending'.start_discharge > pending.start_discharge

\* C16: within a tick, headroom computation, duration computation, planning,
\* auto-trigger evaluation and snapshot publication run in that order, none
\* of them twice and none before the one it follows; a tick that publishes
\* has run them all; and the tick asks for a stop exactly when the readings
\* it took at its start say so, asks for a start only in its auto-trigger
\* stage and exactly when the trigger fires on the session planned from
\* those readings, and publishes the headroom of those readings.
C16_StagesInOrder ==
    /\ [](StagesRun = SubSeq(NamedStages, 1, Len(StagesRun)))
    /\ [](upd.outcome = "published" => StagesRun = NamedStages)
    /\ [][ upd.pc # "idle" =>
            /\ StopRequested <=>
                  /\ upd.pc = "auto_stop"
                  /\ should_stop(Val(upd.in), HeadroomOfReadings, discharge_active,
                                 discharge_start_export, discharge_target_energy)
            /\ StartRequested <=>
                  /\ upd.pc = "trigger"
                  /\ upd'.outcome # "raised"
                  /\ Val(upd.in).auto_charge
                  /\ auto_trigger(trigger_windows(SessionOfReadings),
                                  last_auto_charge_window, charge_active, now).fired > 0
            /\ upd'.outcome = "published" =>
                  Val(data').headroom = HeadroomOfReadings ]_vars

\* A tick has published after asking for a stop: every stage has run.
C16_Witness ==
    /\ upd.outcome = "published"
    /\ upd.stop = Some(TRUE)
    /\ Val(upd.plan_today) # << >>
    /\ Val(data).headroom = Val(upd.headroom_kwh)

(***************************************************************************)
(* Properties of the circuit breaker (SpecCB).                             *)
(***************************************************************************)
\* The breaker is open and timeout_duration has not elapsed since the last
\* failure.
CoolingDown ==
    /\ circuit_breaker.is_open
    /\ (circuit_breaker.last_failure_time = None
        \/ now - Val(circuit_breaker.last_failure_time) <= timeout_duration)

\* C10 as stated: after the probe that follows the cooldown, a further
\* can_attempt() made before any outcome is recorded returns false.
C10_SingleProbe ==
    [][ (event.op = "can_attempt" /\ event.outcome = "probe"
         /\ event'.op = "can_attempt" /\ event' # event)
        => ~event'.result ]_vars

\* C10, amended: while an open breaker cools down can_attempt() returns
\* false and changes nothing; the first call after the cooldown returns true
\* and closes the breaker with failure_count 0; on a closed breaker every
\* call returns true, so the calls after the probe are not refused.
C10_ResetAfterCooldown ==
    [][ event'.op = "can_attempt" =>
          /\ CoolingDown => (~event'.result /\ circuit_breaker' = circuit_breaker)
          /\ (circuit_breaker.is_open /\ ~CoolingDown)
                => /\ event'.result
                   /\ ~circuit_breaker'.is_open
                   /\ circuit_breaker'.failure_count = 0
          /\ ~circuit_breaker.is_open
                => (event'.result /\ circuit_breaker' = circuit_breaker) ]_vars

C10_Witness ==
    /\ event.op = "can_attempt"
    /\ event.outcome = "probe"
    /\ event.result
    /\ ~circuit_breaker.is_open
    /\ now - Val(circuit_breaker.last_failure_time) > timeout_duration

\* C11: in every state of the breaker, open implies failure_count >=
\* failure_threshold; and every call that takes the breaker from open to
\* closed (record_success, or can_attempt after the cooldown) leaves
\* failure_count at 0.
C11_OpenImpliesThreshold ==
    /\ [](circuit_breaker.is_open
            => circuit_breaker.failure_count >= failure_threshold)
    /\ [][ (circuit_breaker.is_open /\ ~circuit_breaker'.is_open)
            => /\ circuit_breaker'.failure_count = 0
               /\ event'.op \in {"record_success", "can_attempt"} ]_vars

\* An open breaker has just been closed by the can_attempt() that followed
\* the cooldown, and counts 0 failures.
C11_Witness ==
    /\ event.op = "can_attempt"
    /\ event.outcome = "probe"
    /\ ~circuit_breaker.is_open
    /\ circuit_breaker.failure_count = 0

(***************************************************************************)
(* Properties of safe_service_call (SpecCall, SpecCallLive).               *)
(***************************************************************************)
Matches == {"match", "close"}
NotSettled == {"missing", "unknown", "unavailable"}

\* C12: safe_service_call returns False exactly when the request timed out,
\* the request raised, or verification was asked for and the deadline
\* passed without a poll reading the expected value; in every other case,
\* a call without verification included, it returns True.
C12_FalseExactlyOnFailure ==
    (ssc.pc = "done") =>
        /\ ssc.result \in {"true", "false"}
        /\ (ssc.result = "false") <=>
              (\/ ssc.req \in {"timeout", "raise"}
               \/ /\ ssc.verify
                  /\ ssc.elapsed > STATE_VERIFICATION_MAX_WAIT
                  /\ ssc.last_state \notin Matches)

\* The request succeeded, the entity showed another state at every poll, and
\* the call returned False after the deadline.
C12_Witness ==
    /\ ssc.pc = "done"
    /\ ssc.req = "ok"
    /\ ssc.verify
    /\ ssc.last_state = "other"
    /\ ssc.elapsed > STATE_VERIFICATION_MAX_WAIT
    /\ ssc.result = "false"

\* C13: a poll that finds the entity missing or unavailable before the
\* deadline does not end the call: the call sleeps and polls again, each
\* sleep lasting at least the poll interval; a poll that reads the expected
\* value before the deadline returns True; a verification returns False only
\* after the deadline; and every verification loop ends.
C13_UnavailableKeepsPolling ==
    /\ [][ /\ (ssc.pc = "poll" /\ ssc.elapsed <= STATE_VERIFICATION_MAX_WAIT
               /\ ssc'.last_state \in NotSettled)
              => (ssc'.pc = "sleep" /\ ssc'.result = "none")
           /\ (ssc.pc = "poll" /\ ssc.elapsed <= STATE_VERIFICATION_MAX_WAIT
               /\ ssc'.last_state \in Matches)
              => (ssc'.pc = "done" /\ ssc'.result = "true")
           /\ (ssc.pc = "sleep")
              => (/\ ssc'.pc = "poll"
                  /\ ssc'.elapsed >= ssc.elapsed + STATE_VERIFICATION_POLL_INTERVAL)
           /\ (ssc.pc = "poll" /\ ssc'.result = "false")
              => ssc.elapsed > STATE_VERIFICATION_MAX_WAIT ]_vars
    /\ (ssc.pc \in {"poll", "sleep"} ~> ssc.pc = "done")

\* A poll has found the entity unavailable and the call sleeps before the
\* next poll.
C13_Witness ==
    /\ ssc.pc = "sleep"
    /\ ssc.last_state \in {"missing", "unavailable"}
    /\ ssc.elapsed >= STATE_VERIFICATION_POLL_INTERVAL

\* C14: one call of safe_service_call puts the request on the bus at most
\* once, whether it times out, raises or fails verification.
C14_RequestIssuedOnce == ssc.requests <= 1

\* The request timed out and the call returned False after one request.
C14_Witness ==
    /\ ssc.pc = "done"
    /\ ssc.req = "timeout"
    /\ ssc.result = "false"
    /\ ssc.requests = 1

(***************************************************************************)
(* Properties of the planners (SpecPlan).                                  *)
(***************************************************************************)
Planned == planned.planner # "none" /\ ~planned.out.raised
Plan == planned.out.plan

RECURSIVE SumEnergy(_, _)
SumEnergy(plan, i) ==
    IF i > Len(plan) THEN 0 ELSE plan[i].energy_kwh + SumEnergy(plan, i + 1)

\* The length of a plan window in minutes, and the energy the planner's
\* power delivers in it.
WindowMinutes(w) ==
    IF planned.planner = "charge" THEN w.period_end - w.period_start
    ELSE w.duration_minutes
WindowCapacity(w) == capacity_of(planned.power, WindowMinutes(w))

\* Half of the last digit kept by round(x, 3): 0.0005 kWh.
HalfUnit == 5

C18_SortedByIntensity ==
    Planned =>
        \A i, j \in 1..Len(Plan) :
            i < j => IF planned.planner = "charge"
                     THEN Plan[i].ci_value <= Plan[j].ci_value
                     ELSE Plan[i].ci_value >= Plan[j].ci_value

\* A discharge plan of three windows or more that does not stand in the
\* order of the forecast.
C18_Witness ==
    /\ Planned
    /\ planned.planner = "today"
    /\ Len(Plan) >= 3
    /\ Plan[1].ci_value > Plan[3].ci_value
    /\ planned.periods[1].ci < planned.periods[2].ci

\* C19: a planner called with no periods, with a budget <= 0 (the headroom,
\* tomorrow's solar forecast; for the charge session an SOC >= 100) or with a
\* power <= 0 returns the empty plan and does not raise.
C19_EmptyPlanOnEdge ==
    (planned.planner # "none"
     /\ (planned.periods = << >> \/ planned.guard <= 0 \/ planned.power <= 0))
        => (~planned.out.raised /\ planned.out.plan = << >>)

\* A planner called with a forecast and a budget and the power 0.
C19_Witness ==
    /\ planned.planner # "none"
    /\ planned.periods # << >>
    /\ planned.guard > 0
    /\ planned.power = 0
    /\ ~planned.out.raised
    /\ planned.out.plan = << >>

\* Wraparound: a time of day is in the planner's window.
InWindow(time) ==
    IF planned.window[1] <= planned.window[2]
    THEN planned.window[1] <= time /\ time <= planned.window[2]
    ELSE time >= planned.window[1] \/ time <= planned.window[2]

Inside(from, to) == InWindow(time_of(from)) /\ InWindow(time_of(to))
Outside(from, to) == ~InWindow(time_of(from)) /\ ~InWindow(time_of(to))

WindowFrom(w) == IF planned.planner = "charge" THEN w.period_start ELSE w["from"]
WindowTo(w) == IF planned.planner = "charge" THEN w.period_end ELSE w.to

\* C20: with an overnight window (start > end), a forecast period of the
\* planned day that lies inside the window is put in the discharge plan
\* when there is budget for it, and no plan holds a period that lies
\* entirely outside the window.
C20_OvernightWindow ==
    (Planned /\ planned.window[1] > planned.window[2]) =>
        /\ \A i \in 1..Len(Plan) : ~Outside(WindowFrom(Plan[i]), WindowTo(Plan[i]))
        /\ (planned.planner = "today" /\ planned.budget > 0 /\ planned.power > 0)
           => \A k \in 1..Len(planned.periods) :
                 LET q == planned.periods[k]
                 IN  (/\ q.to > planned.t
                      /\ day_of(q.from) = day_of(planned.t)
                      /\ Inside(Max2(q.from, planned.t), q.to))
                     => Plan # << >>

(***************************************************************************)
(* Properties of the handlers next to the breaker (SpecGuard).             *)
(***************************************************************************)
\* C9: the actuation failures of start_discharge and stop_discharge are
\* recorded in the breaker, so that once it is open no handler issues a
\* point command until the cooldown has elapsed.
C9_RefusedWhileOpen ==
    [][ CoolingDown => event'.cmd \notin PointCommands ]_vars

InSourcePeriod(w) ==
    \E k \in 1..Len(planned.periods) :
        /\ planned.periods[k].from <= WindowFrom(w)
        /\ WindowTo(w) <= planned.periods[k].to

\* C21, for a window that does not span midnight: the interval of every
\* plan window lies inside the forecast period it comes from and inside the
\* planner's time-of-day window, a window of the same-day discharge plan
\* starts no earlier than now, and so a period that straddles an edge of the
\* time-of-day window is in the plan trimmed to the overlap.
C21_TrimmedToWindow ==
    (Planned /\ planned.window[1] <= planned.window[2]) =>
        \A i \in 1..Len(Plan) :
            /\ InSourcePeriod(Plan[i])
            /\ Inside(WindowFrom(Plan[i]), WindowTo(Plan[i]))
            /\ planned.planner = "today" => WindowFrom(Plan[i]) >= planned.t

\* The end of the occurrence of the charge window that holds planned.t
\* or, when planned.t is outside the window, of the next one to come.
OccurrenceEnd ==
    LET t == planned.t
        we == planned.window[2]
    IN  IF time_of(t) <= we THEN at(day_of(t), we) ELSE at(day_of(t) + 1, we)

\* The start of that occurrence, or planned.t when it has begun.
OccurrenceStart ==
    IF InWindow(time_of(planned.t)) THEN planned.t
    ELSE LET ws == planned.window[1]
         IN  IF time_of(planned.t) < ws THEN at(day_of(planned.t), ws)
             ELSE at(day_of(planned.t) + 1, ws)

\* C22: every window of the next charge session lies within one occurrence
\* of the charge window, the one that holds now or else the next to come,
\* and none runs past the end of that occurrence.
C22_SingleOccurrence ==
    (Planned /\ planned.planner = "charge") =>
        \A i \in 1..Len(Plan) :
            /\ OccurrenceStart <= Plan[i].period_start
            /\ Plan[i].period_end <= OccurrenceEnd

(***************************************************************************)
(* Properties of the forecast parser (SpecParse).                          *)
(***************************************************************************)
Parsed == pure.method = "parse_ci_forecast"

\* The period list the parser's strategies can find in a payload: under
\* "data", or under "data" of the dict under "data".
PeriodsIn(value) ==
    IF value.type # "dict" THEN << >>
    ELSE IF get_data(value).type = "list" THEN get_data(value).items
    ELSE IF get_data(value).type = "dict" /\ get_data(get_data(value)).type = "list"
    THEN get_data(get_data(value)).items
    ELSE << >>

\* The period list found in the attributes: a list under "data", or the
\* payload under "data".
PeriodsInAttributes(attributes) ==
    IF attributes = None THEN << >>
    ELSE IF get_data(Val(attributes)).type = "list"
    THEN get_data(Val(attributes)).items
    ELSE PeriodsIn(get_data(Val(attributes)))

\* C23: the parser returns null whenever neither the state nor the
\* attributes hold a non-empty period list, and every result that is not
\* null carries a non-empty period list.
C23_NullWithoutPeriods ==
    Parsed =>
        /\ pure.out # None => Val(pure.out).periods # << >>
        /\ (/\ (pure.state = None \/ PeriodsIn(json_loads(Val(pure.state))) = << >>)
            /\ PeriodsInAttributes(pure.attributes) = << >>)
           => pure.out = None

(***************************************************************************)
(* Properties of the calculators (SpecCalc).  A duration of x minutes is   *)
(* the fraction num / den of tenths of a minute, with                      *)
(* num = headroom_kwh * 1000 * 60 * 10 * percent and                       *)
(* den = target_export_w * 100.                                            *)
(***************************************************************************)
DurationCalled ==
    /\ pure.method = "calculate_discharge_duration"
    /\ pure.headroom_kwh > 0
    /\ pure.target_export_w > 0

DurationNum(headroom_kwh, percent) == headroom_kwh * 1000 * 60 * 10 * percent
DurationDen(target_export_w) == target_export_w * 100

\* out is num / den rounded to the nearest whole: |out - num / den| <= 1/2
RoundedFrom(out, num, den) ==
    /\ 2 * den * out <= 2 * num + den
    /\ 2 * den * out >= 2 * num - den

TickDurationFrom(percent) ==
    LET in == Val(upd.in)
        headroom_kwh == Max2(Val(in.pv), Val(in.sol)) + safety_margin - Val(in.grid)
    IN  (upd.duration # None /\ Val(in.soc) > min_soc /\ headroom_kwh > 0
         /\ in.target_export > 0)
        => RoundedFrom(Val(upd.duration), DurationNum(headroom_kwh, percent),
                       DurationDen(in.target_export))

C26_HeadroomUnclamped ==
    /\ pure.method = "calculate_export_headroom" =>
          LET larger == IF pure.pv >= pure.sol THEN pure.pv ELSE pure.sol
          IN  /\ pure.out.export_cap = larger + pure.margin
              /\ pure.out.headroom = larger + pure.margin - pure.grid
    /\ upd.outcome = "published" =>
          LET in == Val(upd.in)
              larger == IF Val(in.pv) >= Val(in.sol) THEN Val(in.pv) ELSE Val(in.sol)
          IN  /\ Val(data).export_allowed = larger + safety_margin
              /\ Val(data).headroom = larger + safety_margin - Val(in.grid)

\* A tick has published a negative headroom.
C26_Witness ==
    /\ upd.outcome = "published"
    /\ Val(data).headroom < 0
    /\ Val(data).export_allowed > 0

(***************************************************************************)
(* Properties of the two sessions (SpecSessions).                          *)
(***************************************************************************)
\* C27: whenever the discharge is not active its start export, target
\* energy and start time are null, and whenever the charge is not active
\* its start time is null.
C27_InactiveFieldsNull ==
    /\ ~discharge_active =>
          /\ discharge_start_export = None
          /\ discharge_target_energy = None
          /\ discharge_start_time = None
    /\ ~charge_active => charge_start_time = None

\* A charge that was active has been stopped by its handler while a
\* discharge session is running.
C27_Witness ==
    /\ event.op = "stop_charge"
    /\ event.outcome = "stopped"
    /\ ~charge_active
    /\ charge_start_time = None
    /\ discharge_active
    /\ discharge_start_time # None

(***************************************************************************)
(* Properties of the dedup keys across midnight (SpecRollover).            *)
(***************************************************************************)
OfToday(key) == key = None \/ Val(key).date = date_of(now)

Due(w) ==
    /\ ~discharge_active
    /\ \A k \in 1..Len(event.fired) :
          ~(event.fired[k].date = date_of(now) /\ event.fired[k].start = w.start)
    /\ 0 - TRIGGER_LEAD_SECONDS <= w.start - now
    /\ w.start - now <= 0

\* C29: a call of the trigger fires exactly when a window of its plan
\* meets the start criterion.
C29_FiresExactlyWhenDue ==
    [][ \A plan \in DischargePlans, raises \in BOOLEAN :
           TriggerDischarge(plan, raises) =>
               ((event.outcome # "none")'
                    <=> \E i \in 1..Len(plan) : Due(plan[i])) ]_vars

\* What the scan takes for a match: a start time it can compare with the
\* clock, not the window of the dedup key, the clock at the start or at
\* most TRIGGER_LEAD_SECONDS after it, the discharge not active.
ScanMatches(w) ==
    /\ w.fmt = "naive"
    /\ ~(/\ last_auto_discharge_window = Some(window_id(now, w))
         /\ today_in(Val(last_auto_discharge_window), now))
    /\ 0 - TRIGGER_LEAD_SECONDS <= w.start - now
    /\ w.start - now <= 0
    /\ ~discharge_active

C31_OneStartPerTick ==
    [][ /\ pending.start_discharge' <= pending.start_discharge + 1
        /\ pending.start_charge' <= pending.start_charge + 1
        /\ Len(event.fired)' <= Len(event.fired) + 1 ]_vars

\* At 00:02 the trigger has fired for the window at 00:00, first in its
\* plan, and not for the window at 00:02 of the same plan.
C31_Witness ==
    /\ event.op = "trigger_discharge"
    /\ event.outcome = "fired"
    /\ now = WindowLate.start
    /\ event.fired = << window_id(now, WindowA) >>
    /\ pending.start_discharge = 1
    /\ discharge_target_energy = Some(WindowA.energy)

StartFailed(w) ==
    /\ event.op = "trigger_discharge"
    /\ event.outcome = "call_failed"
    /\ last_auto_discharge_window = Some(window_id(now, w))

StartFired(w) ==
    /\ event.op = "trigger_discharge"
    /\ event.outcome = "fired"
    /\ last_auto_discharge_window = Some(window_id(now, w))

C34_StopRepeatsUntilInactive ==
    /\ []((event.op = "tick" /\ event.obs.limit) => event.obs.stop)
    /\ (event.op = "tick" /\ event.obs.limit)
           ~> (~discharge_active \/ (event.op = "tick" /\ ~event.obs.limit))

(***************************************************************************)
(* Properties of the greedy walk (SpecPlan).                               *)
(***************************************************************************)
\* What the planner's power delivers in the whole period of a plan window,
\* as the window records it: the charge planner rounds to 3 decimals.
FullCapacity(w) ==
    IF planned.planner = "charge"
    THEN round3(capacity_of(planned.power, w.period_end - w.period_start))
    ELSE capacity_of(planned.power, w.to - w.from)

\* C35: every window of a plan but the last carries the full capacity of
\* its period; only the last may carry less.
C35_OnlyLastPartial ==
    Planned =>
        \A i \in 1..(Len(Plan) - 1) : Plan[i].energy_kwh = FullCapacity(Plan[i])

\* A plan of two windows or more whose last window carries less than the
\* capacity of its period.
C35_Witness ==
    /\ Planned
    /\ Len(Plan) >= 2
    /\ Plan[Len(Plan)].energy_kwh < FullCapacity(Plan[Len(Plan)])
    /\ Plan[1].energy_kwh > 0

(***************************************************************************)
(* Properties of the parser's fallback (SpecParse).                        *)
(***************************************************************************)
\* The period list the attributes carry in one of the two shapes: a list
\* under "data", or a list under "data" of the dict under "data".
AttributePeriods(attributes) ==
    IF attributes = None THEN << >>
    ELSE LET attr_data == get_data(Val(attributes))
         IN  IF attr_data.type = "list" THEN attr_data.items
             ELSE IF attr_data.type = "dict" /\ get_data(attr_data).type = "list"
             THEN get_data(attr_data).items
             ELSE << >>

\* C36: when the state yields no period list (it is absent, empty, not
\* JSON, or JSON without one) and the attributes carry a non-empty one, the
\* parser returns the periods of the attributes.
C36_FallbackToAttributes ==
    (/\ Parsed
     /\ pure.state = None \/ PeriodsIn(json_loads(Val(pure.state))) = << >>
     /\ AttributePeriods(pure.attributes) # << >>)
        => /\ pure.out # None
           /\ Val(pure.out).periods = AttributePeriods(pure.attributes)

(***************************************************************************)
(* Properties of the breaker's count (SpecCB).                             *)
(***************************************************************************)
\* C37: failure_count is the number of failures recorded since the last
\* record_success or cooldown reset (a failure adds one, a success sets it
\* to 0, nothing else raises it), and the breaker is open exactly when that
\* number has reached failure_threshold.
C37_OpenExactlyAtThreshold ==
    /\ [](circuit_breaker.is_open
            <=> circuit_breaker.failure_count >= failure_threshold)
    /\ [][ /\ event'.op = "record_success" => circuit_breaker'.failure_count = 0
           /\ event'.op = "record_failure" =>
                  circuit_breaker'.failure_count = circuit_breaker.failure_count + 1
           /\ circuit_breaker'.failure_count > circuit_breaker.failure_count =>
                  event'.op = "record_failure" ]_vars

\* The failure that has just been recorded is the failure_threshold-th in a
\* row and has opened the breaker.
C37_Witness ==
    /\ event.op = "record_failure"
    /\ circuit_breaker.failure_count = failure_threshold
    /\ circuit_breaker.is_open
    /\ circuit_breaker.last_failure_time = Some(now)

(***************************************************************************)
(* The reserve point without a reading (SpecReserve).                      *)
(***************************************************************************)
\* The tick in the frame observes the reserve point and found no number in it.
ReserveUnread ==
    /\ upd.in # None
    /\ Val(upd.in).observe
    /\ Val(upd.in).reserve_state \in UnreadableStates

\* The stop conditions other than the reserve, at the auto-stop stage.
OtherStopCondition ==
    \/ Val(upd.headroom_kwh) <= 0
    \/ /\ discharge_start_export # None
       /\ truthy(discharge_target_energy)
       /\ Val(Val(upd.in).grid) - Val(discharge_start_export)
              >= Val(discharge_target_energy)

\* C39: when the reserve point is observed and its entity is absent, unknown,
\* unavailable or not a number, the tick does not fail, and it requests a
\* stop exactly when a discharge is active and the headroom is exhausted or
\* the target is reached: the reserve breach is false in that tick.
C39_UnreadReserveNoStop ==
    [][ /\ ReserveUnread' => upd'.outcome \notin {"raised", "update_failed"}
        /\ (UpdAutoStop /\ ReserveUnread)
              => upd'.stop = Some(discharge_active /\ OtherStopCondition)
      ]_vars

\* A tick published with the reserve point unreadable and the charge below
\* every reserve it reports, while a discharge runs on, no stop requested.
C39_Witness ==
    /\ ReserveUnread
    /\ Val(upd.in).soc = Some(25)
    /\ upd.outcome = "published"
    /\ upd.stop = Some(FALSE)
    /\ discharge_active
    /\ pending.stop_discharge = 0

(***************************************************************************)
(* The duration the start handler sends (SpecHandlerDuration).             *)
(***************************************************************************)
Distance(a, b) == IF a >= b THEN a - b ELSE b - a

\* The handler has computed a duration, with no auto window, from the
\* snapshot of the latest tick and under the target power of that tick.
HandlerAfterTick ==
    /\ pure.method = "handle_start_discharge"
    /\ pure.auto_window_minutes = None
    /\ upd.pc = "idle" /\ upd.outcome = "published"
    /\ pure.headroom = Val(data).headroom
    /\ pure.target_export_w = Val(upd.in).target_export

\* C40: the duration start_discharge sends to the duration point and to the
\* timer is the duration the latest tick stored for the same headroom and
\* power, buffer included, unless an auto window is in use: the two agree
\* to the rounding of the tick (half a tenth of a minute) and the timer to
\* that and the rounding to a second.
C40_HandlerSendsTickDuration ==
    HandlerAfterTick =>
        /\ 2 * Distance(pure.duration_minutes.num * 10,
                        calculated_duration * pure.duration_minutes.den)
              <= pure.duration_minutes.den
        /\ Distance(pure.total_seconds * 10, calculated_duration * SECONDS_PER_MINUTE)
              <= 40

====
